---------------------------- MODULE Spec2Model ----------------------------
(***************************************************************************)
(* SpectraSTSpLibImporter: the library build/merge engine.                 *)
(*                                                                         *)
(* import() is modelled as a state machine.  One step of the machine is    *)
(* the prologue of import() (configuration checks, dispatch, openSplibs,   *)
(* writePreamble), one iteration of one of its loops, or one loop exit.    *)
(*                                                                         *)
(* A library file is the set of entries stored in it.  An entry is an ion  *)
(* of IonTable (stripped sequence, charge, fragmentation, precursor m/z)   *)
(* with the outcome the filter predicate has on it.                        *)
(***************************************************************************)
EXTENDS Integers, Sequences, FiniteSets, TLC

VARIABLES
  m_params,                \* combineAction, buildAction, setFragmentation,
                           \* refreshDatabase, allowableModTokens (non-empty?)
  m_impFileNames,          \* the input files: [opens, lib] per file name
  m_denoiser,              \* "NULL" | "untrained" | "ready"
  m_splibFins,             \* per input: stream non-NULL?
  m_pepIndices,            \* per input: peptide index non-NULL?
  m_mzIndices,             \* per input: m/z index non-NULL?
  m_lib,                   \* the output library: [preamble, entries]
  g_log,                   \* the log sink: sequence of [level, tag, text]
  curPepIndex,             \* index of the input being scanned (1-based)
  cursor,                  \* position of the iterator of the scanned index
  m_count,
  m_singletonPeptideIons,  \* deferred (stripped sequence, subkey) pairs
  handed,                  \* history: the calls of doBuildAction made so far, with the
                           \* replicates the consensus used and the denoiser's state
  qfstats,                 \* doQualityFilter: the QFStats counters
  qfcalls,                 \* history: the calls of applyQualityFilter
  fold,                    \* doGenerateDecoy: the fold of the peptide at hand
  allSequences,            \* doGenerateDecoy: length -> sequences not to shuffle to
  shuffled,                \* history: the calls of shufflePeptideSequence
  clusteredEntries,        \* doSimilarityClustering: file offset -> cluster index
  multiclusters,           \* doSimilarityClustering: the clusters of 2+ offsets
  added,                   \* history: the additions findSpectralNeighbors made
  heap,                    \* history: the entries doSubtractHomologs, doQualityFilter and
                           \* doGenerateDecoy got from an index, [ion, deletes] each
  pc

vars == <<m_params, m_impFileNames, m_denoiser, m_splibFins, m_pepIndices,
          m_mzIndices, m_lib, g_log, curPepIndex, cursor, m_count,
          m_singletonPeptideIons, handed, qfstats, qfcalls, fold, allSequences,
          shuffled,
          clusteredEntries, multiclusters, added, heap, pc>>

\* the locals of the single-file build actions
qfLocals    == <<qfstats, qfcalls>>
decoyLocals == <<fold, allSequences, shuffled>>
clusterLocals == <<clusteredEntries, multiclusters, added>>
locals      == <<qfLocals, decoyLocals, clusterLocals, heap>>

---------------------------------------------------------------------------
(* Bounds *)

MaxFiles == 2          \* number of input libraries of a run
MaxEntries == 2        \* entries of an input library of a single-file action
MaxSpectra == 3        \* spectra of an input library of SIMILARITY_CLUSTERING
MaxPeaks == 4          \* assigned, and unassigned, peaks among the top peaks of a spectrum

---------------------------------------------------------------------------
(* The ions the input libraries are made of.  mz is in tenths of a Th.     *)

IonTable ==
  << [seq |-> "A",  pep |-> TRUE,  charge |-> 2, frag |-> "CID", mz |-> 100],
     [seq |-> "A",  pep |-> TRUE,  charge |-> 2, frag |-> "ETD", mz |-> 100],
     [seq |-> "B",  pep |-> TRUE,  charge |-> 2, frag |-> "CID", mz |-> 120],
     [seq |-> "B",  pep |-> TRUE,  charge |-> 3, frag |-> "CID", mz |-> 80],
     [seq |-> "C",  pep |-> TRUE,  charge |-> 2, frag |-> "CID", mz |-> 110],
     [seq |-> "D",  pep |-> TRUE,  charge |-> 2, frag |-> "CID", mz |-> 200],
     [seq |-> "_U", pep |-> FALSE, charge |-> 2, frag |-> "CID", mz |-> 100],
     [seq |-> "E",  pep |-> TRUE,  charge |-> 1, frag |-> "CID", mz |-> 300] >>

Ions == DOMAIN IonTable

\* the ions of the libraries of a merge by peptide-ion key
MergeIons == {1, 2}

CombineActions == {"UNION", "APPEND", "INTERSECT", "SUBTRACT", "SUBTRACT_HOMOLOGS"}

SingleFileBuildActions ==
  {"QUALITY_FILTER", "DECOY", "SORT_BY_NREPS", "USER_SPECIFIED_MODS", "SIMILARITY_CLUSTERING"}

BuildActions == {"", "BEST_REPLICATE", "CONSENSUS"} \cup SingleFileBuildActions

---------------------------------------------------------------------------
(* Entries, keys and the indices of an input library *)

\* the entry stored in a library file, as retrieved from input number src
LibEntry(x, src) ==
  [ion |-> x.ion, frag |-> IonTable[x.ion].frag, pass |-> x.pass,
   src |-> src, nreps |-> 1]

Stripped(e) == IonTable[e.ion].seq

constructSubkey(e) == <<IonTable[e.ion].charge, e.frag>>

KeyOf(e) == <<Stripped(e), constructSubkey(e)>>

IonKey(k) == <<IonTable[k].seq, <<IonTable[k].charge, IonTable[k].frag>>>>

\* SpectraSTPeptideLibIndex::isInIndex on input i
isInIndex(i, key) ==
  \E x \in m_impFileNames[i].lib : IonKey(x.ion) = key

\* SpectraSTPeptideLibIndex::retrieve on input i: the entries of the key, in file order
retrieve(i, key) ==
  LET has(b) == \E x \in m_impFileNames[i].lib : IonKey(x.ion) = key /\ x.pass = b
      one(b) == LET x == CHOOSE y \in m_impFileNames[i].lib : IonKey(y.ion) = key /\ y.pass = b
                IN  <<LibEntry(x, i)>>
  IN  (IF has(TRUE) THEN one(TRUE) ELSE <<>>) \o (IF has(FALSE) THEN one(FALSE) ELSE <<>>)

\* SpectraSTPeptideLibIndex::isUniqueLibrary on a library
isUniqueLibrary(lib) ==
  \A x, y \in lib : x.ion = y.ion => x = y

\* the ions the iterator of the peptide index of input i has not yet returned
Remaining(i) == {x.ion : x \in m_impFileNames[i].lib} \cap {k \in Ions : k > cursor}

HasNextPeptide ==
  /\ curPepIndex <= Len(m_pepIndices)
  /\ m_pepIndices[curPepIndex]
  /\ Remaining(curPepIndex) # {}

\* SpectraSTPeptideLibIndex::nextPeptide, one subkey at a time
NextIon == CHOOSE k \in Remaining(curPepIndex) : \A j \in Remaining(curPepIndex) : k <= j

\* the peptide index of the output library
OutIndex == {KeyOf(m_lib.entries[n]) : n \in 1..Len(m_lib.entries)}

---------------------------------------------------------------------------
(* Helpers of the importer *)

passAllFilters(e) == e.pass

processEntry(e) ==
  IF m_params.setFragmentation # ""
    THEN [e EXCEPT !.frag = m_params.setFragmentation]
    ELSE e

\* m_lib->insertEntry for each entry of a sequence, after processEntry
Inserted(lib, es) ==
  [lib EXCEPT !.entries = @ \o [n \in 1..Len(es) |-> processEntry(es[n])]]

RECURSIVE SelectSeq2(_, _)
SelectSeq2(s, flag) ==
  IF s = <<>> THEN <<>>
  ELSE (IF s[1].pass = flag THEN <<s[1]>> ELSE <<>>) \o SelectSeq2(Tail(s), flag)

\* SpectraSTReplicates::makeConsensusSpectrum: one entry standing for all
\* replicates; used is the number of replicates it kept
makeConsensusSpectrum(entries, used) ==
  [ion |-> entries[1].ion, frag |-> entries[1].frag,
   pass |-> \E n \in 1..Len(entries) : entries[n].pass,
   src |-> 0, nreps |-> used]

\* doBuildAction, deferring a consensus whatever the number of replicates it used
doBuildAction_DeferAnyNreps(entries, best, used) ==
  IF m_params.buildAction = "BEST_REPLICATE" THEN
    [ins   |-> IF entries # <<>> /\ passAllFilters(entries[best]) THEN <<entries[best]>> ELSE <<>>,
     defer |-> <<>>]
  ELSE IF m_params.buildAction = "CONSENSUS" THEN
    IF entries = <<>> \/ ~passAllFilters(makeConsensusSpectrum(entries, used))
      THEN [ins |-> <<>>, defer |-> <<>>]
    ELSE IF m_denoiser = "untrained"
      THEN [ins |-> <<>>, defer |-> <<KeyOf(makeConsensusSpectrum(entries, used))>>]
      ELSE [ins |-> <<makeConsensusSpectrum(entries, used)>>, defer |-> <<>>]
  ELSE
    [ins |-> SelectSeq2(entries, TRUE), defer |-> <<>>]

\* doBuildAction: [ins |-> the entries inserted, defer |-> the pairs remembered]
doBuildAction(entries, best, used) ==
  IF m_params.buildAction = "BEST_REPLICATE" THEN
    [ins   |-> IF entries # <<>> /\ passAllFilters(entries[best]) THEN <<entries[best]>> ELSE <<>>,
     defer |-> <<>>]
  ELSE IF m_params.buildAction = "CONSENSUS" THEN
    IF entries = <<>> \/ ~passAllFilters(makeConsensusSpectrum(entries, used))
      THEN [ins |-> <<>>, defer |-> <<>>]
    ELSE IF m_denoiser = "untrained" /\ makeConsensusSpectrum(entries, used).nreps = 1
      THEN [ins |-> <<>>, defer |-> <<KeyOf(makeConsensusSpectrum(entries, used))>>]
      ELSE [ins |-> <<makeConsensusSpectrum(entries, used)>>, defer |-> <<>>]
  ELSE
    [ins |-> SelectSeq2(entries, TRUE), defer |-> <<>>]

\* findBestReplicate picks one of the replicates
BestChoices(entries) ==
  IF m_params.buildAction = "BEST_REPLICATE" /\ entries # <<>>
    THEN 1..Len(entries) ELSE {1}

\* the consensus keeps some of the replicates (it removes dissimilar ones)
UsedChoices(entries) ==
  IF m_params.buildAction = "CONSENSUS" /\ entries # <<>>
    THEN 1..Len(entries) ELSE {1}

\* RetrieveFrom, leaving the loop at the first index that returned entries
\* whatever the combine action
RECURSIVE RetrieveFrom_StopAtFirst(_, _)
RetrieveFrom_StopAtFirst(i, key) ==
  IF i > Len(m_pepIndices) THEN <<>>
  ELSE LET got == IF m_pepIndices[i] THEN retrieve(i, key) ELSE <<>>
       IN  IF m_pepIndices[i] /\ got # <<>> THEN got
           ELSE IF m_params.combineAction = "SUBTRACT" THEN got
           ELSE got \o RetrieveFrom_StopAtFirst(i + 1, key)

\* RetrieveFrom, without the break of APPEND
RECURSIVE RetrieveFrom_NoAppendBreak(_, _)
RetrieveFrom_NoAppendBreak(i, key) ==
  IF i > Len(m_pepIndices) THEN <<>>
  ELSE LET got == IF m_pepIndices[i] THEN retrieve(i, key) ELSE <<>>
       IN  IF m_params.combineAction = "SUBTRACT" THEN got
           ELSE got \o RetrieveFrom_NoAppendBreak(i + 1, key)

\* the loop that retrieves the entries of one peptide ion (import and
\* reloadAndProcessSingletons share it)
RECURSIVE RetrieveFrom(_, _)
RetrieveFrom(i, key) ==
  IF i > Len(m_pepIndices) THEN <<>>
  ELSE LET got == IF m_pepIndices[i] THEN retrieve(i, key) ELSE <<>>
       IN  IF m_pepIndices[i] /\ m_params.combineAction = "APPEND" /\ got # <<>> THEN got
           ELSE IF m_params.combineAction = "SUBTRACT" THEN got
           ELSE got \o RetrieveFrom(i + 1, key)

\* Include, the test of INTERSECT without its negation
Include_IntersectNegated(key) ==
  IF m_params.combineAction \in {"UNION", "APPEND"} THEN
    ~(curPepIndex # 1 /\ key \in OutIndex)
  ELSE IF m_params.combineAction = "INTERSECT" THEN
    \A i \in 2..Len(m_pepIndices) : ~(m_pepIndices[i] /\ isInIndex(i, key))
  ELSE IF m_params.combineAction = "SUBTRACT" THEN
    \A i \in 2..Len(m_pepIndices) : ~(m_pepIndices[i] /\ isInIndex(i, key))
  ELSE TRUE

\* Include, SUBTRACT looking at no other input
Include_SubtractUnchecked(key) ==
  IF m_params.combineAction \in {"UNION", "APPEND"} THEN
    ~(curPepIndex # 1 /\ key \in OutIndex)
  ELSE IF m_params.combineAction = "INTERSECT" THEN
    \A i \in 2..Len(m_pepIndices) : ~(m_pepIndices[i] /\ ~isInIndex(i, key))
  ELSE TRUE

\* the decision of import() to include a peptide ion
Include(key) ==
  IF m_params.combineAction \in {"UNION", "APPEND"} THEN
    ~(curPepIndex # 1 /\ key \in OutIndex)
  ELSE IF m_params.combineAction = "INTERSECT" THEN
    \A i \in 2..Len(m_pepIndices) : ~(m_pepIndices[i] /\ ~isInIndex(i, key))
  ELSE IF m_params.combineAction = "SUBTRACT" THEN
    \A i \in 2..Len(m_pepIndices) : ~(m_pepIndices[i] /\ isInIndex(i, key))
  ELSE TRUE

Error(tag) == [level |-> "error", tag |-> tag, text |-> <<>>]
Descr      == [level |-> "log", tag |-> "CREATE", text |-> <<"descr">>]

\* openSplibs, keeping the peptide index of a non-unique library
openSplibs_NoUniqueness(openMzIndex, openPepIndex, checkUniqueness, refresh) ==
  LET n == Len(m_impFileNames)
      f(i) == m_impFileNames[i]
  IN  [fins |-> [i \in 1..n |-> f(i).opens],
       pep  |-> [i \in 1..n |->
                   /\ f(i).opens
                   /\ (openPepIndex \/ checkUniqueness \/ (refresh /\ m_params.refreshDatabase))],
       mz   |-> [i \in 1..n |-> f(i).opens /\ openMzIndex],
       errs |-> SelectSeq([i \in 1..n |-> [level |-> "error", tag |-> "CREATE", text |-> <<"open", i>>]],
                          LAMBDA r : ~f(r.text[2]).opens)]

\* openSplibs: the three vectors it fills and the errors it logs
openSplibs(openMzIndex, openPepIndex, checkUniqueness, refresh) ==
  LET n == Len(m_impFileNames)
      f(i) == m_impFileNames[i]
  IN  [fins |-> [i \in 1..n |-> f(i).opens],
       pep  |-> [i \in 1..n |->
                   /\ f(i).opens
                   /\ (openPepIndex \/ checkUniqueness \/ (refresh /\ m_params.refreshDatabase))
                   /\ ~(checkUniqueness /\ ~isUniqueLibrary(f(i).lib))],
       mz   |-> [i \in 1..n |-> f(i).opens /\ openMzIndex],
       errs |-> SelectSeq([i \in 1..n |-> [level |-> "error", tag |-> "CREATE", text |-> <<"open", i>>]],
                          LAMBDA r : ~f(r.text[2]).opens)]

NotOpened == [fins |-> <<>>, pep |-> <<>>, mz |-> <<>>, errs |-> <<>>]

\* what a call leaves behind: where the run continues, the messages logged, the
\* vectors of openSplibs, and whether writePreamble was called
Outcome(to, log, o, preamble) ==
  [pc |-> to, log |-> log, fins |-> o.fins, pep |-> o.pep, mz |-> o.mz,
   preamble |-> preamble]

---------------------------------------------------------------------------
(* doGenerateDecoy: the loop over the peptide index *)

\* an entry an index has handed over, and the number of delete on it so far
Obtained(entry, deletes) == [ion |-> entry.ion, deletes |-> deletes]

\* delete on each of the entries of the ions
Deleted(h, ions) ==
  [n \in DOMAIN h |-> IF h[n].ion \in ions THEN [h[n] EXCEPT !.deletes = @ + 1] ELSE h[n]]

\* the number of residues of a sequence (for a non-peptide, of its name)
NAA(s) ==
  IF s \in {"A", "B", "C", "D", "P"} THEN 7
  ELSE IF s = "_U" THEN 2
  ELSE 9

\* the lengths allSequences has a set for
SeqLengths == {2, 7, 9}

\* the sequences a shuffle of a stripped sequence can come out as: permutations
\* of its residues, or permutations with two residues added
ShuffleCandidates(s) ==
  CASE s = "A" -> {"B", "P", "AX", "AY"}
    [] s = "B" -> {"A", "P", "BX", "BY"}
    [] OTHER   -> {"P", "A", "CX", "CY"}

\* Peptide::shufflePeptideSequence: the results it can return for the
\* exclusion sets it is given
shufflePeptideSequence(p, excluded) ==
  {s \in ShuffleCandidates(p) : s \notin excluded[NAA(s)]}

\* the stripped sequences of the peptide index of input 1, in its order
RECURSIVE SeqsInOrder(_)
SeqsInOrder(S) ==
  IF S = {} THEN <<>>
  ELSE LET k == CHOOSE i \in S : \A j \in S : i <= j
       IN  <<IonTable[k].seq>> \o SeqsInOrder({i \in S : IonTable[i].seq # IonTable[k].seq})

DecoyPeptides == SeqsInOrder({x.ion : x \in m_impFileNames[1].lib})

\* SpectraSTPeptideLibIndex::getAllSequences
getAllSequences == {IonTable[x.ion].seq : x \in m_impFileNames[1].lib}

\* Filed, the sequence not inserted
Filed_Nothing(all, len, seq) == all

\* allSequences[length].insert(seq)
Filed(all, len, seq) == [all EXCEPT ![len] = @ \cup {seq}]

\* allSequences after the loop over the real sequences
RECURSIVE FiledReal(_, _)
FiledReal(all, seqs) ==
  IF seqs = {} THEN all
  ELSE LET s == CHOOSE t \in seqs : TRUE
       IN  FiledReal(Filed(all, NAA(s), s), seqs \ {s})

\* the entry retrieved for a subkey of a peptide
DecoyEntry(x) ==
  [ion |-> x.ion, frag |-> IonTable[x.ion].frag, pass |-> x.pass, src |-> 1,
   nreps |-> 1, status |-> "Normal", seq |-> IonTable[x.ion].seq, fold |-> 0]

RECURSIVE SortByIon(_)
SortByIon(S) ==
  IF S = {} THEN <<>>
  ELSE LET m == CHOOSE x \in S : \A y \in S : x.ion <= y.ion
       IN  <<m>> \o SortByIon(S \ {m})

\* the entries retrieved for the subkeys of a peptide, in the order of the
\* subkeys; the vector entries has NULL for one that fails the filter predicate
SubkeyEntries(origPeptide) ==
  LET s == SortByIon({x \in m_impFileNames[1].lib : IonTable[x.ion].seq = origPeptide})
  IN  [n \in 1..Len(s) |-> DecoyEntry(s[n])]

\* SpectraSTLibEntry::makeDecoy
makeDecoy(entry, decoySeq, foldNo) ==
  [entry EXCEPT !.status = "Decoy", !.seq = decoySeq, !.fold = foldNo]

ShuffleLog(entry, decoySeq) ==
  [level |-> "log", tag |-> "DECOY",
   text |-> <<"Shuffle", entry.ion, decoySeq, NAA(entry.seq) # NAA(decoySeq)>>]

\* DecoysOfFold, a decoy for the first subkey only
DecoysOfFold_FirstSubkeyOnly(entries, decoySeq, foldNo) ==
  LET kept == SelectSeq(entries, passAllFilters)
  IN  IF kept = <<>> THEN <<>> ELSE <<makeDecoy(processEntry(kept[1]), decoySeq, foldNo)>>

\* the decoy entries of one fold: one per subkey whose entry is not NULL
DecoysOfFold(entries, decoySeq, foldNo) ==
  LET kept == SelectSeq(entries, passAllFilters)
  IN  [n \in 1..Len(kept) |-> makeDecoy(processEntry(kept[n]), decoySeq, foldNo)]

\* nextPeptide and the loop over the subkeys of the peptide
GenerateDecoyPeptide ==
  /\ pc = "decoy"
  /\ cursor < Len(DecoyPeptides)
  /\ LET origPeptide == DecoyPeptides[cursor + 1]
         entries     == SubkeyEntries(origPeptide)
     IN  IF origPeptide = "_U"
           THEN UNCHANGED <<m_lib, fold, pc, heap>>
           ELSE /\ m_lib' = IF m_params.decoyConcatenate
                              THEN Inserted(m_lib, SelectSeq(entries, passAllFilters))
                              ELSE m_lib
                /\ heap' = heap \o [n \in 1..Len(entries) |->
                                      Obtained(entries[n],
                                               IF passAllFilters(entries[n]) THEN 0 ELSE 1)]
                /\ fold' = 0
                /\ pc' = IF 0 < m_params.decoySizeRatio THEN "fold" ELSE "decoy"
  /\ cursor' = cursor + 1
  /\ UNCHANGED <<m_params, m_impFileNames, m_denoiser, m_splibFins, m_pepIndices,
                 m_mzIndices, g_log, curPepIndex, m_count, m_singletonPeptideIons,
                 handed, qfLocals, allSequences, shuffled, clusterLocals>>

\* one fold: the shuffle, and a decoy for every subkey
GenerateDecoyFold ==
  /\ pc = "fold"
  /\ LET origPeptide == DecoyPeptides[cursor]
         entries     == SubkeyEntries(origPeptide)
     IN  \E decoyp \in shufflePeptideSequence(origPeptide, allSequences) :
           LET decoys == DecoysOfFold(entries, decoyp, fold)
           IN  /\ shuffled' = Append(shuffled, [orig |-> origPeptide, excluded |-> allSequences,
                                                result |-> decoyp])
               /\ allSequences' = Filed(allSequences, NAA(decoyp), decoyp)
               /\ g_log' = g_log \o [n \in 1..Len(decoys) |->
                                       ShuffleLog(decoys[n], decoyp)]
               /\ m_lib' = [m_lib EXCEPT !.entries = @ \o decoys]
               /\ heap' = IF fold >= m_params.decoySizeRatio - 1
                            THEN Deleted(heap, {decoys[n].ion : n \in 1..Len(decoys)})
                            ELSE heap
  /\ fold' = fold + 1
  /\ pc' = IF fold + 1 < m_params.decoySizeRatio THEN "fold" ELSE "decoy"
  /\ UNCHANGED <<m_params, m_impFileNames, m_denoiser, m_splibFins, m_pepIndices,
                 m_mzIndices, curPepIndex, cursor, m_count, m_singletonPeptideIons,
                 handed, qfLocals, clusterLocals>>

\* nextPeptide returns false: the loop is left
EndGenerateDecoy ==
  /\ pc = "decoy"
  /\ cursor >= Len(DecoyPeptides)
  /\ pc' = "done"
  /\ UNCHANGED <<m_params, m_impFileNames, m_denoiser, m_splibFins, m_pepIndices,
                 m_mzIndices, m_lib, g_log, curPepIndex, cursor, m_count,
                 m_singletonPeptideIons, handed>>
  /\ UNCHANGED locals

---------------------------------------------------------------------------
(* The single-file build actions, up to writePreamble *)

doQualityFilter ==
  IF Len(m_impFileNames) # 1 THEN Outcome("done", <<Error("QUALITY FILTER")>>, NotOpened, FALSE)
  ELSE LET o == openSplibs(TRUE, TRUE, TRUE, TRUE)
       IN  IF o.fins[1] /\ ~o.pep[1]
             THEN Outcome("done", <<Descr>> \o o.errs \o <<Error("QUALITY_FILTER")>>, o, FALSE)
           ELSE IF ~o.mz[1] THEN Outcome("done", <<Descr>> \o o.errs, o, FALSE)
           ELSE Outcome("qf", <<Descr>> \o o.errs, o, TRUE)

doGenerateDecoy ==
  IF Len(m_impFileNames) # 1 THEN Outcome("done", <<Error("DECOY")>>, NotOpened, FALSE)
  ELSE LET o == openSplibs(FALSE, TRUE, TRUE, TRUE)
       IN  IF ~o.fins[1] THEN Outcome("done", <<Descr>> \o o.errs, o, FALSE)
           ELSE IF o.fins[1] /\ ~o.pep[1]
             THEN Outcome("done", <<Descr>> \o o.errs \o <<Error("DECOY")>>, o, FALSE)
           ELSE Outcome("decoy", <<Descr>> \o o.errs, o, TRUE)

doSortByNreps ==
  IF Len(m_impFileNames) # 1 THEN Outcome("done", <<Error("SORT_BY_NREPS")>>, NotOpened, FALSE)
  ELSE LET o == openSplibs(TRUE, FALSE, FALSE, TRUE)
       IN  IF ~o.fins[1] THEN Outcome("done", <<Descr>> \o o.errs, o, FALSE)
           ELSE IF ~o.mz[1] THEN Outcome("done", <<Descr>> \o o.errs, o, FALSE)
           ELSE Outcome("sort", <<Descr>> \o o.errs, o, TRUE)

doUserSpecifiedModifications ==
  IF Len(m_impFileNames) # 1 THEN Outcome("done", <<Error("SEMI-EMPIRICAL")>>, NotOpened, FALSE)
  ELSE IF ~m_params.allowableModTokens
    THEN Outcome("done", <<Error("SEMI-EMPIRICAL")>>, NotOpened, FALSE)
  ELSE LET o == openSplibs(FALSE, TRUE, TRUE, TRUE)
       IN  IF ~o.fins[1] THEN Outcome("done", <<Descr>> \o o.errs, o, FALSE)
           ELSE IF o.fins[1] /\ ~o.pep[1]
             THEN Outcome("done", <<Descr>> \o o.errs \o <<Error("SEMI-EMPIRICAL")>>, o, FALSE)
           ELSE Outcome("mods", <<Descr>> \o o.errs, o, TRUE)

\* doSimilarityClustering, without the check of the number of inputs
doSimilarityClustering_AnyCount ==
  LET o == openSplibs(TRUE, FALSE, FALSE, FALSE)
  IN  IF ~o.fins[1] THEN Outcome("done", <<Descr>> \o o.errs, o, FALSE)
      ELSE IF ~o.mz[1] THEN Outcome("done", <<Descr>> \o o.errs, o, FALSE)
      ELSE Outcome("cluster", <<Descr>> \o o.errs, o, TRUE)

doSimilarityClustering ==
  IF Len(m_impFileNames) # 1
    THEN Outcome("done", <<Error("SIMILARITY_CLUSTERING")>>, NotOpened, FALSE)
  ELSE LET o == openSplibs(TRUE, FALSE, FALSE, FALSE)
       IN  IF ~o.fins[1] THEN Outcome("done", <<Descr>> \o o.errs, o, FALSE)
           ELSE IF ~o.mz[1] THEN Outcome("done", <<Descr>> \o o.errs, o, FALSE)
           ELSE Outcome("cluster", <<Descr>> \o o.errs, o, TRUE)

\* doSubtractHomologs, up to its loop
doSubtractHomologsOpen ==
  LET o == openSplibs(TRUE, FALSE, FALSE, TRUE)
  IN  Outcome(IF o.mz[1] THEN "sh" ELSE "done", <<Descr>> \o o.errs, o, TRUE)

\* import() with a combine action by peptide-ion key, up to its loop
importOpen ==
  LET o == openSplibs(FALSE, TRUE, FALSE, TRUE)
  IN  Outcome(IF o.pep[1] THEN "scan" ELSE "done", <<Descr>> \o o.errs, o, TRUE)

---------------------------------------------------------------------------
(* import(): configuration checks, dispatch, opening of the inputs *)

importOutcome ==
  IF m_params.combineAction = "SUBTRACT_HOMOLOGS" /\ m_params.buildAction # ""
    THEN Outcome("done", <<Error("CREATE")>>, NotOpened, FALSE)
  ELSE IF m_params.buildAction = "QUALITY_FILTER" THEN doQualityFilter
  ELSE IF m_params.buildAction = "DECOY" THEN doGenerateDecoy
  ELSE IF m_params.buildAction = "SORT_BY_NREPS" THEN doSortByNreps
  ELSE IF m_params.buildAction = "USER_SPECIFIED_MODS" THEN doUserSpecifiedModifications
  ELSE IF m_params.buildAction = "SIMILARITY_CLUSTERING" THEN doSimilarityClustering
  ELSE IF m_params.combineAction = "SUBTRACT_HOMOLOGS" THEN doSubtractHomologsOpen
  ELSE importOpen

import ==
  /\ pc = "start"
  /\ LET r == importOutcome
     IN  /\ m_splibFins' = r.fins
         /\ m_pepIndices' = r.pep
         /\ m_mzIndices' = r.mz
         /\ g_log' = g_log \o r.log
         /\ m_lib' = [m_lib EXCEPT !.preamble = r.preamble]
         /\ allSequences' = IF r.pc = "decoy"
                               THEN FiledReal(allSequences, getAllSequences)
                               ELSE allSequences
         /\ pc' = r.pc
  /\ UNCHANGED <<m_params, m_impFileNames, m_denoiser, curPepIndex, cursor, m_count,
                 m_singletonPeptideIons, handed, qfLocals, fold, shuffled, clusterLocals,
                 heap>>

---------------------------------------------------------------------------
(* import(): the loop over the peptide indices *)

\* one peptide ion of the scanned index
ImportKey ==
  /\ pc = "scan"
  /\ UNCHANGED locals
  /\ HasNextPeptide
  /\ LET key     == IonKey(NextIon)
         entries == RetrieveFrom(1, key)
     IN  /\ cursor' = NextIon
         /\ IF Include(key)
              THEN \E best \in BestChoices(entries), used \in UsedChoices(entries) :
                     LET r == doBuildAction(entries, best, used)
                     IN  /\ m_count' = m_count + 1
                         /\ m_lib' = Inserted(m_lib, r.ins)
                         /\ m_singletonPeptideIons' = m_singletonPeptideIons \o r.defer
                         /\ handed' = Append(handed,
                                [pass |-> curPepIndex, key |-> key, entries |-> entries,
                                 used |-> used, denoiser |-> m_denoiser])
              ELSE UNCHANGED <<m_count, m_lib, m_singletonPeptideIons, handed>>
  /\ UNCHANGED <<m_params, m_impFileNames, m_denoiser, m_splibFins, m_pepIndices,
                 m_mzIndices, g_log, curPepIndex, pc>>

\* the scanned index is exhausted (or NULL): on to the next file
NextFile ==
  /\ pc = "scan"
  /\ UNCHANGED locals
  /\ ~HasNextPeptide
  /\ m_params.combineAction \in {"UNION", "APPEND"}
  /\ curPepIndex <= Len(m_pepIndices)
  /\ curPepIndex' = curPepIndex + 1
  /\ cursor' = 0
  /\ UNCHANGED <<m_params, m_impFileNames, m_denoiser, m_splibFins, m_pepIndices,
                 m_mzIndices, m_lib, g_log, m_count, m_singletonPeptideIons, handed, pc>>

\* the loop is left: train the denoiser if singletons are pending
EndScan ==
  /\ pc = "scan"
  /\ UNCHANGED locals
  /\ ~HasNextPeptide
  /\ \/ m_params.combineAction \notin {"UNION", "APPEND"}
     \/ curPepIndex > Len(m_pepIndices)
  /\ IF m_denoiser # "NULL" /\ m_singletonPeptideIons # <<>>
       THEN /\ m_denoiser' = "ready"
            /\ pc' = "reload"
            /\ cursor' = 0
       ELSE /\ pc' = "done"
            /\ UNCHANGED <<m_denoiser, cursor>>
  /\ UNCHANGED <<m_params, m_impFileNames, m_splibFins, m_pepIndices, m_mzIndices,
                 m_lib, g_log, curPepIndex, m_count, m_singletonPeptideIons, handed>>

\* reloadAndProcessSingletons: one deferred peptide ion
ReloadSingleton ==
  /\ pc = "reload"
  /\ UNCHANGED locals
  /\ cursor < Len(m_singletonPeptideIons)
  /\ LET key     == m_singletonPeptideIons[cursor + 1]
         entries == RetrieveFrom(1, key)
     IN  \E best \in BestChoices(entries), used \in UsedChoices(entries) :
           LET r == doBuildAction(entries, best, used)
           IN  /\ m_lib' = Inserted(m_lib, r.ins)
               /\ m_singletonPeptideIons' = m_singletonPeptideIons \o r.defer
               /\ handed' = Append(handed,
                      [pass |-> 0, key |-> key, entries |-> entries,
                       used |-> used, denoiser |-> m_denoiser])
  /\ cursor' = cursor + 1
  /\ pc' = IF cursor + 1 >= Len(m_singletonPeptideIons) THEN "done" ELSE "reload"
  /\ UNCHANGED <<m_params, m_impFileNames, m_denoiser, m_splibFins, m_pepIndices,
                 m_mzIndices, g_log, curPepIndex, m_count>>

---------------------------------------------------------------------------
(* doSubtractHomologs: the loop over the m/z index of the first input *)

MzWindow == 45            \* 4.5 Th
HomologThreshold == 70    \* identity 0.7

getPrecursorMz(e) == IonTable[e.ion].mz
getCharge(e)      == IonTable[e.ion].charge
getPeptidePtr(e)  == IonTable[e.ion].pep

\* Peptide::operator== : same sequence, charge and modifications
PeptideEq(e, en) == Stripped(e) = Stripped(en) /\ getCharge(e) = getCharge(en)

\* the identity the homology comparator computes for two sequences, in percent
Identity(s, t) ==
  IF s = t THEN 100
  ELSE IF {s, t} = {"A", "B"} THEN 80
  ELSE IF {s, t} = {"A", "D"} THEN 75
  ELSE IF {s, t} = {"B", "D"} THEN 60
  ELSE 30

isHomolog(e, en, threshold) == Identity(Stripped(e), Stripped(en)) >= threshold

\* the order of the m/z index
MzRank(x) == IonTable[x.ion].mz * 100 + x.ion * 2 + (IF x.pass THEN 0 ELSE 1)

RECURSIVE SortByMz(_)
SortByMz(S) ==
  IF S = {} THEN <<>>
  ELSE LET m == CHOOSE x \in S : \A y \in S : MzRank(x) <= MzRank(y)
       IN  <<m>> \o SortByMz(S \ {m})

\* the entries SpectraSTMzLibIndex::nextEntry returns for input i, in order
MzEntries(i) ==
  LET s == SortByMz(m_impFileNames[i].lib)
  IN  [n \in 1..Len(s) |-> LibEntry(s[n], i)]

\* SpectraSTMzLibIndex::retrieve on input i
retrieveMz(i, lo, hi) ==
  SelectSeq(MzEntries(i), LAMBDA en : getPrecursorMz(en) >= lo /\ getPrecursorMz(en) <= hi)

\* IsHomologousTo, the identical peptide only
IsHomologousTo_IdenticalOnly(e, en) ==
  /\ getPeptidePtr(en)
  /\ PeptideEq(e, en)

\* the test that removes an entry on account of an entry of another input
IsHomologousTo(e, en) ==
  /\ getPeptidePtr(en)
  /\ \/ PeptideEq(e, en)
     \/ getCharge(e) = getCharge(en) /\ isHomolog(e, en, HomologThreshold)

\* the first entry of the inputs i.. that removes e: <<>> or <<en>>
RECURSIVE FindHomolog(_, _)
FindHomolog(i, e) ==
  IF i > Len(m_mzIndices) THEN <<>>
  ELSE IF ~m_mzIndices[i] THEN FindHomolog(i + 1, e)
  ELSE LET isobaricEntries ==
             retrieveMz(i, getPrecursorMz(e) - MzWindow, getPrecursorMz(e) + MzWindow)
           hits == SelectSeq(isobaricEntries, LAMBDA en : IsHomologousTo(e, en))
       IN  IF hits # <<>> THEN <<hits[1]>> ELSE FindHomolog(i + 1, e)

Removed(e, en) ==
  [level |-> "log", tag |-> "CREATE",
   text |-> <<"removed", e.ion, getPrecursorMz(e),
              IF PeptideEq(e, en) THEN 0 ELSE Identity(Stripped(e), Stripped(en)),
              en.ion, getPrecursorMz(en)>>]

\* one entry of the m/z index of the first input
SubtractEntry ==
  /\ pc = "sh"
  /\ UNCHANGED <<qfLocals, decoyLocals, clusterLocals>>
  /\ cursor < Len(MzEntries(1))
  /\ heap' = LET entry == MzEntries(1)[cursor + 1]
             IN  Append(heap, Obtained(entry, IF getPeptidePtr(entry) THEN 1 ELSE 0))
  /\ LET entry == MzEntries(1)[cursor + 1]
         found == FindHomolog(2, entry)
     IN  IF ~getPeptidePtr(entry) THEN
           UNCHANGED <<m_lib, g_log, m_count>>
         ELSE IF found # <<>> THEN
           /\ g_log' = Append(g_log, Removed(entry, found[1]))
           /\ UNCHANGED <<m_lib, m_count>>
         ELSE
           /\ m_count' = m_count + 1
           /\ m_lib' = IF passAllFilters(entry) THEN Inserted(m_lib, <<entry>>) ELSE m_lib
           /\ UNCHANGED g_log
  /\ cursor' = cursor + 1
  /\ UNCHANGED <<m_params, m_impFileNames, m_denoiser, m_splibFins, m_pepIndices,
                 m_mzIndices, curPepIndex, m_singletonPeptideIons, handed, pc>>

\* nextEntry returns NULL: the loop is left
EndSubtract ==
  /\ pc = "sh"
  /\ UNCHANGED locals
  /\ cursor >= Len(MzEntries(1))
  /\ pc' = "done"
  /\ UNCHANGED <<m_params, m_impFileNames, m_denoiser, m_splibFins, m_pepIndices,
                 m_mzIndices, m_lib, g_log, curPepIndex, cursor, m_count,
                 m_singletonPeptideIons, handed>>

---------------------------------------------------------------------------
(* doQualityFilter: the loop over the m/z index, and applyQualityFilter *)

\* the counters of QFStats, one per concern and per intersection of concerns
QFCounters ==
  {"immuneProb", "immuneEngine",
   "Q1", "Q2", "Q3", "Q4", "Q5",
   "Q1Q2", "Q1Q3", "Q1Q4", "Q1Q5", "Q2Q3", "Q2Q4", "Q2Q5", "Q3Q4", "Q3Q5", "Q4Q5",
   "Q1Q2Q3", "Q1Q2Q4", "Q1Q2Q5", "Q1Q3Q4", "Q1Q3Q5", "Q1Q4Q5",
   "Q2Q3Q4", "Q2Q3Q5", "Q2Q4Q5", "Q3Q4Q5",
   "Q1Q2Q3Q4", "Q1Q2Q3Q5", "Q1Q2Q4Q5", "Q1Q3Q4Q5", "Q2Q3Q4Q5",
   "Q1Q2Q3Q4Q5"}

\* memset(&qfstats, 0, sizeof(qfstats))
QFZero == [c \in QFCounters |-> 0]

\* the ++ on each counter of a set
Incremented(q, cs) == [c \in QFCounters |-> IF c \in cs THEN q[c] + 1 ELSE q[c]]

\* the entry the m/z index of the input returns for a record of the file
QFEntry(x) ==
  [ion |-> x.ion, frag |-> IonTable[x.ion].frag, pass |-> x.pass, src |-> 1,
   nreps |-> x.nreps, prob |-> x.prob, se |-> x.se, shared |-> x.shared,
   conflict |-> x.conflict, status |-> "Unset", peakSupport |-> 0,
   peaks |-> x.peaks,
   fracUnassignedTop20 |-> x.fracUnassignedTop20,
   numUnassignedTop20 |-> x.numUnassignedTop20,
   numAssignedTop20 |-> x.numAssignedTop20]

\* the entries SpectraSTMzLibIndex::nextEntry returns, in order
QFEntries ==
  LET s == SortByMz(m_impFileNames[1].lib)
  IN  [n \in 1..Len(s) |-> QFEntry(s[n])]

\* getProb, of an entry without a probability
getProb_Zero(e) == 0

getProb(e) == e.prob
getNrepsUsed(e) == e.nreps
hasSharedSequence(e) == getPeptidePtr(e) /\ e.shared
getLibId(e) == e.ion

\* SpectraSTLib::retrieve on m_QFSearchLib, the library of the input file
retrieveQF(lo, hi) ==
  SelectSeq(QFEntries, LAMBDA en : getPrecursorMz(en) >= lo /\ getPrecursorMz(en) <= hi)

\* SpectraSTPeakList::compare of two entries of the input, in percent
compareQF(entry, en) ==
  IF entry.peaks = en.peaks THEN 100
  ELSE IF {entry.peaks, en.peaks} = {"a", "b"} THEN 80
  ELSE IF {entry.peaks, en.peaks} = {"a", "e"} THEN 67
  ELSE 10

\* the body of the loop of isBadConflictingID, keeping the entry whatever the
\* replicates and the probability of the match
BetterMatch_Never(entry, en, numRepsUsed, penalizeSingletons) == FALSE

\* the body of the loop of isBadConflictingID for one retrieved entry en:
\* TRUE when the function returns true on account of en
BetterMatch(entry, en, numRepsUsed, penalizeSingletons) ==
  LET dot == compareQF(entry, en)
  IN  /\ getLibId(entry) # getLibId(en)
      /\ dot >= 70 \/ (penalizeSingletons /\ numRepsUsed = 1 /\ dot >= 65)
      /\ ~isHomolog(entry, en, 60)
      /\ \/ getNrepsUsed(en) > numRepsUsed
         \/ getNrepsUsed(en) = numRepsUsed /\ getProb(en) > getProb(entry)

\* isBadConflictingID.  The field conflict of an entry stands for a better
\* match among entries of the library that the file of the model does not list
isBadConflictingID(entry, numRepsUsed, penalizeSingletons) ==
  IF ~getPeptidePtr(entry) THEN FALSE
  ELSE LET precursorMz == getPrecursorMz(entry)
           entries     == retrieveQF(precursorMz - MzWindow, precursorMz + MzWindow)
       IN  \/ entry.conflict
           \/ \E i \in 1..Len(entries) :
                BetterMatch(entry, entries[i], numRepsUsed, penalizeSingletons)

\* a - b on unsigned int, for a and b below 2^31: (a - b) % 2^32.  A wrapped
\* difference, 2^32 - (b - a), is written 2^31 - (b - a): the largest integers
\* of TLC are below 2^31, and the two compare alike with every number below 2^31
Sub32(a, b) == IF a >= b THEN a - b ELSE (2147483647 - (b - a)) + 1

\* isImpure, on the figures of the comment FracUnassigned (the fraction in
\* percent)
isImpure(entry, numRepsUsed, penalizeSingletons) ==
  IF ~getPeptidePtr(entry) THEN FALSE
  ELSE ~(\/ getCharge(entry) = 1
         \/ /\ ~penalizeSingletons \/ numRepsUsed > 1
            /\ entry.fracUnassignedTop20 < 40
         \/ /\ penalizeSingletons /\ numRepsUsed = 1
            /\ entry.fracUnassignedTop20 < 40
            /\ entry.numUnassignedTop20 < Sub32(entry.numAssignedTop20, 2))

QFLog(verb, label, e) ==
  [level |-> "log", tag |-> "QUALITY_FILTER", text |-> <<verb, label, e.ion>>]

\* QFLevel, marking before removing
QFLevel_MarkFirst(s, e, level, label, counters) ==
  LET t == [s EXCEPT !.q = Incremented(@, counters)]
  IN  IF m_params.qualityLevelMark >= level
        THEN [t EXCEPT !.log = Append(@, QFLog("Mark", label, e)), !.status = label]
      ELSE IF m_params.qualityLevelRemove >= level
        THEN [t EXCEPT !.log = Append(@, QFLog("Remove", label, e)),
                       !.returned = TRUE, !.ret = FALSE]
      ELSE t

\* QFLevel, a removal going on to the lower levels before it returns false
QFLevel_RemoveContinues(s, e, level, label, counters) ==
  LET t == [s EXCEPT !.q = Incremented(@, counters)]
  IN  IF m_params.qualityLevelRemove >= level
        THEN [t EXCEPT !.log = Append(@, QFLog("Remove", label, e)), !.ret = FALSE]
      ELSE IF m_params.qualityLevelMark >= level
        THEN [t EXCEPT !.log = Append(@, QFLog("Mark", label, e)), !.status = label]
      ELSE t

\* one level of the cascade, once its condition holds: the counters, then
\* removal (return false), else marking.  s is the state of the call:
\* [q, status, log, returned, ret]
QFLevel(s, e, level, label, counters) ==
  LET t == [s EXCEPT !.q = Incremented(@, counters)]
  IN  IF m_params.qualityLevelRemove >= level
        THEN [t EXCEPT !.log = Append(@, QFLog("Remove", label, e)),
                       !.returned = TRUE, !.ret = FALSE]
      ELSE IF m_params.qualityLevelMark >= level
        THEN [t EXCEPT !.log = Append(@, QFLog("Mark", label, e)), !.status = label]
      ELSE t

QFActive(level) ==
  m_params.qualityLevelRemove >= level \/ m_params.qualityLevelMark >= level


\* the counters of a level-3 hit
Level3Counters(singleton) ==
  {"Q3", "Q3Q5"} \cup (IF singleton THEN {"Q3Q4", "Q3Q4Q5"} ELSE {})

\* the counters of a level-2 hit
Level2Counters(inquorate, singleton, unconfirmed) ==
  {"Q2"}
    \cup (IF inquorate THEN {"Q2Q5"} ELSE {})
    \cup (IF singleton THEN {"Q2Q4", "Q2Q4Q5"} ELSE {})
    \cup (IF unconfirmed THEN {"Q2Q3", "Q2Q3Q5"} ELSE {})
    \cup (IF singleton /\ unconfirmed THEN {"Q2Q3Q4", "Q2Q3Q4Q5"} ELSE {})

\* Level1Counters, without the intersections with level 2
Level1Counters_NoConflictingID(inquorate, singleton, unconfirmed, badConflictingID) ==
  {"Q1"}
    \cup (IF inquorate THEN {"Q1Q5"} ELSE {})
    \cup (IF singleton THEN {"Q1Q4", "Q1Q4Q5"} ELSE {})
    \cup (IF unconfirmed THEN {"Q1Q3", "Q1Q3Q5"} ELSE {})
    \cup (IF singleton /\ unconfirmed THEN {"Q1Q3Q4", "Q1Q3Q4Q5"} ELSE {})

\* the counters of a level-1 hit
Level1Counters(inquorate, singleton, unconfirmed, badConflictingID) ==
  {"Q1"}
    \cup (IF inquorate THEN {"Q1Q5"} ELSE {})
    \cup (IF singleton THEN {"Q1Q4", "Q1Q4Q5"} ELSE {})
    \cup (IF unconfirmed THEN {"Q1Q3", "Q1Q3Q5"} ELSE {})
    \cup (IF singleton /\ unconfirmed THEN {"Q1Q3Q4", "Q1Q3Q4Q5"} ELSE {})
    \cup (IF badConflictingID THEN {"Q1Q2"} ELSE {})
    \cup (IF badConflictingID /\ inquorate THEN {"Q1Q2Q5"} ELSE {})
    \cup (IF badConflictingID /\ singleton THEN {"Q1Q2Q4", "Q1Q2Q4Q5"} ELSE {})
    \cup (IF badConflictingID /\ unconfirmed THEN {"Q1Q2Q3", "Q1Q2Q3Q5"} ELSE {})
    \cup (IF badConflictingID /\ singleton /\ unconfirmed
            THEN {"Q1Q2Q3Q4", "Q1Q2Q3Q4Q5"} ELSE {})

\* repQuorum, taken from the parameters as it is
repQuorum_NoClamp == m_params.minimumNumReplicates

\* the quorum of replicates of the quality filter: at least 2
repQuorum ==
  IF m_params.minimumNumReplicates < 2 THEN 2 ELSE m_params.minimumNumReplicates

\* (unsigned int)(numRepsUsed * peakQuorum - 0.00001) + 1, at least 1;
\* peakQuorum is in percent
minNumRepWithPeak(numRepsUsed) ==
  IF numRepsUsed * m_params.peakQuorum < 1 THEN 1
  ELSE ((numRepsUsed * m_params.peakQuorum - 1) \div 100) + 1

\* SpectraSTPeakList::removeInquoratePeaks: the peaks left are those seen in at
\* least minNumRepWithPeak replicates.  A peak list is modelled by the least
\* number of replicates that support each of its peaks (0: no peak removed yet)
removeInquoratePeaks(peakSupport, minNumRep) ==
  IF peakSupport < minNumRep THEN minNumRep ELSE peakSupport

\* the status of the entry when the levels are evaluated, left as it was read
StatusAtEntry_Kept(entry) == entry.status

\* entry->setStatus("Normal") on entry to applyQualityFilter
StatusAtEntry(entry) == "Normal"

\* applyQualityFilter: [q |-> the counters, status |-> the status of the entry,
\* log |-> the messages logged, ret |-> the value returned,
\* peakSupport |-> the peak list of the entry]
applyQualityFilter(entry, q) ==
  LET numRepsUsed == getNrepsUsed(entry)
      inquorate   == numRepsUsed < repQuorum
      s0 == [q |-> q, status |-> StatusAtEntry(entry), log |-> <<>>, returned |-> FALSE, ret |-> TRUE,
             peakSupport |-> entry.peakSupport]
      \* level 5: inquorate
      s5 == IF QFActive(5) /\ inquorate
              THEN QFLevel(s0, entry, 5, "Inquorate", {"Q5"}) ELSE s0
      \* level 4: singleton
      singleton == ~s5.returned /\ inquorate /\ QFActive(4) /\ numRepsUsed = 1
      s4 == IF singleton
              THEN QFLevel(s5, entry, 4, "Singleton", {"Q4", "Q4Q5"}) ELSE s5
      \* level 3: inquorate and unconfirmed
      unconfirmed == ~s4.returned /\ inquorate /\ QFActive(3) /\ ~hasSharedSequence(entry)
      s3 == IF unconfirmed
              THEN QFLevel(s4, entry, 3, "Inquorate_Unconfirmed", Level3Counters(singleton))
              ELSE s4
      \* level 2: conflicting ID
      badConflictingID == ~s3.returned /\ QFActive(2)
                          /\ isBadConflictingID(entry, numRepsUsed,
                                                m_params.qualityPenalizeSingletons)
      s2 == IF badConflictingID
              THEN QFLevel(s3, entry, 2, "Conflicting_ID",
                           Level2Counters(inquorate, singleton, unconfirmed))
              ELSE s3
      \* level 1: impure
      impure == /\ ~s2.returned /\ QFActive(1)
                /\ isImpure(entry, numRepsUsed, m_params.qualityPenalizeSingletons)
      s1 == IF impure
              THEN QFLevel(s2, entry, 1, "Impure",
                           Level1Counters(inquorate, singleton, unconfirmed, badConflictingID))
              ELSE s2
  IN  IF getProb(entry) >= m_params.qualityImmuneProbThreshold
        THEN [s0 EXCEPT !.q = Incremented(@, {"immuneProb"})]
      ELSE IF m_params.qualityImmuneMultipleEngines /\ entry.se > 1
        THEN [s0 EXCEPT !.q = Incremented(@, {"immuneEngine"})]
      ELSE IF s1.returned THEN s1
      ELSE [s1 EXCEPT !.peakSupport = removeInquoratePeaks(@, minNumRepWithPeak(numRepsUsed))]

\* the statistics doQualityFilter logs after its loop (unsigned arithmetic: the
\* values stay far below 2^32, so a negative value here is a wrapped one there)
QFStatsLog(count, q) ==
  LET level1 == count - q.Q1
      level2 == level1 - q.Q2 + q.Q1Q2
      level3 == level2 - q.Q3 + q.Q1Q3 + q.Q2Q3 - q.Q1Q2Q3
      level4 == level3 - q.Q4 + q.Q1Q4 + q.Q2Q4 + q.Q3Q4 - q.Q1Q2Q4 - q.Q1Q3Q4
                  - q.Q2Q3Q4 + q.Q1Q2Q3Q4
      level5 == level4 - q.Q5 + q.Q1Q5 + q.Q2Q5 + q.Q3Q5 + q.Q4Q5 - q.Q1Q2Q5
                  - q.Q1Q3Q5 - q.Q1Q4Q5 - q.Q2Q3Q5 - q.Q2Q4Q5 - q.Q3Q4Q5 + q.Q1Q2Q3Q5
                  + q.Q1Q2Q4Q5 + q.Q1Q3Q4Q5 + q.Q2Q3Q4Q5 - q.Q1Q2Q3Q4Q5
  IN  << [level |-> "log", tag |-> "QUALITY_FILTER STATS",
          text |-> <<"immune", q.immuneProb, q.immuneEngine>>],
         [level |-> "log", tag |-> "QUALITY_FILTER STATS",
          text |-> <<"levels", count, level1, level2, level3, level4, level5>>] >>

\* one entry of the m/z index: passAllFilters, applyQualityFilter (which counts
\* the entry in m_count), processEntry and insertEntry
QualityFilterEntry ==
  /\ pc = "qf"
  /\ cursor < Cardinality(m_impFileNames[1].lib)
  /\ LET entry == QFEntries[cursor + 1]
         r     == applyQualityFilter(entry, qfstats)
     IN  /\ heap' = Append(heap, Obtained(entry, 1))
         /\ IF passAllFilters(entry)
              THEN /\ m_count' = m_count + 1
                   /\ qfstats' = r.q
                   /\ qfcalls' = Append(qfcalls, [ion |-> entry.ion, ret |-> r.ret,
                                                  peakSupport |-> r.peakSupport])
                   /\ g_log' = g_log \o r.log
                   /\ m_lib' = IF r.ret
                                 THEN Inserted(m_lib, <<[entry EXCEPT !.status = r.status,
                                                                     !.peakSupport = r.peakSupport]>>)
                                 ELSE m_lib
              ELSE UNCHANGED <<m_count, qfstats, qfcalls, g_log, m_lib>>
  /\ cursor' = cursor + 1
  /\ UNCHANGED <<m_params, m_impFileNames, m_denoiser, m_splibFins, m_pepIndices,
                 m_mzIndices, curPepIndex, m_singletonPeptideIons, handed, pc>>
  /\ UNCHANGED <<decoyLocals, clusterLocals>>

\* nextEntry returns NULL: the statistics are logged if no level removes
EndQualityFilter ==
  /\ pc = "qf"
  /\ cursor >= Cardinality(m_impFileNames[1].lib)
  /\ g_log' = IF m_params.qualityLevelMark >= 5 /\ m_params.qualityLevelRemove = 0
                THEN g_log \o QFStatsLog(m_count, qfstats)
                ELSE g_log
  /\ pc' = "done"
  /\ UNCHANGED <<m_params, m_impFileNames, m_denoiser, m_splibFins, m_pepIndices,
                 m_mzIndices, m_lib, curPepIndex, cursor, m_count,
                 m_singletonPeptideIons, handed, locals>>

---------------------------------------------------------------------------
(* doSimilarityClustering and findSpectralNeighbors.  A record of the input  *)
(* library is [offset, mz, peaks, pass, nreps, xrea]: precursor m/z in       *)
(* tenths of a Th, dot products and Xrea in percent.                         *)

\* SpectraSTPeakList::compare on the simplified peak lists, in percent
Dot(p, q) ==
  IF p = q THEN 100
  ELSE IF {p, q} = {"a", "b"} THEN 80
  ELSE IF {p, q} = {"a", "c"} THEN 50
  ELSE IF {p, q} = {"b", "c"} THEN 25
  ELSE IF {p, q} = {"a", "d"} THEN 40
  ELSE IF {p, q} = {"b", "d"} THEN 40
  ELSE 10

compare(entry, en) == Dot(entry.peaks, en.peaks)

\* the entry read at a file offset
ClusterEntry(x) ==
  [ion |-> 7, frag |-> "CID", pass |-> x.pass, src |-> 1, nreps |-> x.nreps,
   offset |-> x.offset, mz |-> x.mz, peaks |-> x.peaks, xrea |-> x.xrea]

getLibFileOffset(e) == e.offset

\* the order of SpectraSTMzLibIndex::retrieve: by precursor m/z, then offset
RECURSIVE SortByMzOffset(_)
SortByMzOffset(S) ==
  IF S = {} THEN <<>>
  ELSE LET m == CHOOSE x \in S : \A y \in S :
                  x.mz < y.mz \/ (x.mz = y.mz /\ x.offset <= y.offset)
       IN  <<ClusterEntry(m)>> \o SortByMzOffset(S \ {m})

\* SpectraSTMzLibIndex::retrieve(lowMz, highMz) on input 1
retrieveSpectra(lo, hi) ==
  SortByMzOffset({x \in m_impFileNames[1].lib : x.mz >= lo /\ x.mz <= hi})

\* x comes before y once the index is sorted by signal-to-noise ratio
BySN(x, y) == x.sn > y.sn \/ (x.sn = y.sn /\ x.offset <= y.offset)

\* the file offsets in the order of nextSortedFileOffset, after sortEntriesBySN
SortedOffsets ==
  LET lib == m_impFileNames[1].lib
  IN  [n \in 1..Cardinality(lib) |->
         (CHOOSE x \in lib : Cardinality({y \in lib : BySN(y, x)}) = n).offset]

thisSortedEntry(offset) ==
  ClusterEntry(CHOOSE x \in m_impFileNames[1].lib : x.offset = offset)

\* the acceptance test of findSpectralNeighbors
IsNeighbor(dot, round) == dot >= m_params.unidentifiedClusterMinimumDot - round * 50

\* the loop of findSpectralNeighbors over isobaricEntries.  root is the
\* centre of the window as a fraction [n, d]; st is [iso, cluster, adds, hits,
\* num, sum]: iso[offset] is FALSE where the vector holds NULL, sum is
\* sumMzInCluster in units of 1/root.d
RECURSIVE ScanIsobaric(_, _, _, _, _)
ScanIsobaric(entry, root, round, list, st) ==
  IF list = <<>> THEN st
  ELSE
    LET en  == Head(list)
        o   == getLibFileOffset(en)
        dot == compare(entry, en)
        nxt ==
          IF ~st.iso[o] THEN st
          ELSE IF o \in st.cluster THEN [st EXCEPT !.iso[o] = FALSE]
          ELSE IF \/ en.mz * root.d < root.n - (25 - 10 * round) * root.d
                  \/ en.mz * root.d > root.n + (25 - 10 * round) * root.d
            THEN st
          ELSE IF IsNeighbor(dot, round)
            THEN [st EXCEPT !.cluster = @ \cup {o},
                            !.hits = Append(@, en),
                            !.num = @ + 1,
                            !.sum = @ + en.mz * root.d,
                            !.adds = Append(@, [round |-> round, dot |-> dot,
                                                entry |-> getLibFileOffset(entry),
                                                candidate |-> o])]
          ELSE IF dot < 30 THEN [st EXCEPT !.iso[o] = FALSE]
          ELSE st
    IN  ScanIsobaric(entry, root, round, Tail(list), nxt)

RECURSIVE findSpectralNeighbors(_, _, _, _, _)
RECURSIVE VisitHits(_, _, _, _, _)

\* findSpectralNeighbors: st is [iso, cluster, adds], the state of
\* isobaricEntries and of the cluster, with the additions made so far
findSpectralNeighbors(entry, root, round, list, st) ==
  LET s == ScanIsobaric(entry, root, round, list,
             [iso |-> st.iso, cluster |-> st.cluster, adds |-> st.adds, hits |-> <<>>,
              num |-> Cardinality(st.cluster), sum |-> root.n * Cardinality(st.cluster)])
      after == [iso |-> s.iso, cluster |-> s.cluster, adds |-> s.adds]
  IN  IF round >= 2 THEN after
      ELSE VisitHits(s.hits, [n |-> s.sum, d |-> root.d * s.num], round + 1, list, after)

\* the loop over the hits of a round
VisitHits(hits, meanMzInCluster, round, list, st) ==
  IF hits = <<>> THEN st
  ELSE VisitHits(Tail(hits), meanMzInCluster, round, list,
                 findSpectralNeighbors(Head(hits), meanMzInCluster, round, list, st))

\* InitialIso, the members of other clusters left in the vector
InitialIso_KeepClustered(isobaricEntries) ==
  [o \in {x.offset : x \in m_impFileNames[1].lib} |->
     \E k \in 1..Len(isobaricEntries) : isobaricEntries[k].offset = o]

\* isobaricEntries once the members of other clusters are set to NULL
InitialIso(isobaricEntries) ==
  [o \in {x.offset : x \in m_impFileNames[1].lib} |->
     /\ \E k \in 1..Len(isobaricEntries) : isobaricEntries[k].offset = o
     /\ o \notin DOMAIN clusteredEntries]

\* clusteredEntries[o] = index for every offset o of a set
Mapped(map, offsets, index) ==
  [o \in DOMAIN map \cup offsets |-> IF o \in offsets THEN index ELSE map[o]]

\* one file offset of the sorted m/z index
ClusterOffset ==
  /\ pc = "cluster"
  /\ cursor < Len(SortedOffsets)
  /\ LET offset == SortedOffsets[cursor + 1]
         entry  == thisSortedEntry(offset)
         rootPrecursorMz == entry.mz
         isobaricEntries == retrieveSpectra(rootPrecursorMz - 25, rootPrecursorMz + 25)
         iso == InitialIso(isobaricEntries)
         r == findSpectralNeighbors(entry, [n |-> rootPrecursorMz, d |-> 1], 0, isobaricEntries,
                                    [iso |-> iso, cluster |-> {offset}, adds |-> <<>>])
     IN  IF offset \in DOMAIN clusteredEntries
           THEN UNCHANGED <<m_lib, clusteredEntries, multiclusters, added>>
         ELSE IF Cardinality(r.cluster) = 1
           THEN /\ m_lib' = IF /\ passAllFilters(entry)
                               /\ \/ entry.nreps > 1
                                  \/ entry.xrea >= m_params.unidentifiedSingletonXreaThreshold
                              THEN Inserted(m_lib, <<entry>>)
                              ELSE m_lib
                /\ clusteredEntries' = Mapped(clusteredEntries, {offset}, -1)
                /\ UNCHANGED <<multiclusters, added>>
         ELSE /\ clusteredEntries' = Mapped(clusteredEntries, r.cluster, Len(multiclusters))
              /\ multiclusters' = Append(multiclusters, r.cluster)
              /\ added' = added \o r.adds
              /\ UNCHANGED m_lib
  /\ cursor' = cursor + 1
  /\ UNCHANGED <<m_params, m_impFileNames, m_denoiser, m_splibFins, m_pepIndices,
                 m_mzIndices, g_log, curPepIndex, m_count, m_singletonPeptideIons,
                 handed, qfLocals, decoyLocals, heap, pc>>

\* nextSortedFileOffset returns false: on to the clusters of 2+ members
EndClustering ==
  /\ pc = "cluster"
  /\ cursor >= Len(SortedOffsets)
  /\ pc' = "merge"
  /\ cursor' = 0
  /\ UNCHANGED <<m_params, m_impFileNames, m_denoiser, m_splibFins, m_pepIndices,
                 m_mzIndices, m_lib, g_log, curPepIndex, m_count,
                 m_singletonPeptideIons, handed, locals>>

\* one cluster of 2+ members: its entries are read again and merged
MergeCluster ==
  /\ pc = "merge"
  /\ cursor < Len(multiclusters)
  /\ LET entries   == SortByMzOffset({x \in m_impFileNames[1].lib :
                                        x.offset \in multiclusters[cursor + 1]})
         consensus == makeConsensusSpectrum(entries, Len(entries))
     IN  m_lib' = IF passAllFilters(consensus) THEN Inserted(m_lib, <<consensus>>) ELSE m_lib
  /\ cursor' = cursor + 1
  /\ UNCHANGED <<m_params, m_impFileNames, m_denoiser, m_splibFins, m_pepIndices,
                 m_mzIndices, g_log, curPepIndex, m_count, m_singletonPeptideIons,
                 handed, locals, pc>>

EndMerge ==
  /\ pc = "merge"
  /\ cursor >= Len(multiclusters)
  /\ pc' = "done"
  /\ UNCHANGED <<m_params, m_impFileNames, m_denoiser, m_splibFins, m_pepIndices,
                 m_mzIndices, m_lib, g_log, curPepIndex, cursor, m_count,
                 m_singletonPeptideIons, handed, locals>>

---------------------------------------------------------------------------
(* Initial states *)

\* libraries over the ions of a merge, at most one entry per peptide ion
MergeLibs == {lib \in SUBSET ([ion : MergeIons, pass : BOOLEAN]) : isUniqueLibrary(lib)}

FilesOf(libs) == [opens : {TRUE}, lib : libs] \cup {[opens |-> FALSE, lib |-> {}]}

InitState ==
  /\ m_splibFins = <<>>
  /\ m_pepIndices = <<>>
  /\ m_mzIndices = <<>>
  /\ m_lib = [preamble |-> FALSE, entries |-> <<>>]
  /\ g_log = <<>>
  /\ curPepIndex = 1
  /\ cursor = 0
  /\ m_count = 0
  /\ m_singletonPeptideIons = <<>>
  /\ handed = <<>>
  /\ qfstats = QFZero
  /\ qfcalls = <<>>
  /\ fold = 0
  /\ allSequences = [len \in SeqLengths |-> {}]
  /\ shuffled = <<>>
  /\ clusteredEntries = <<>>
  /\ multiclusters = <<>>
  /\ added = <<>>
  /\ heap = <<>>
  /\ pc = "start"

\* a merge by peptide-ion key
Init ==
  /\ m_params \in [combineAction : {"UNION", "APPEND", "INTERSECT", "SUBTRACT"},
                   buildAction : {"", "BEST_REPLICATE", "CONSENSUS"},
                   setFragmentation : {"", "ETD"},
                   refreshDatabase : {FALSE},
                   allowableModTokens : {FALSE},
                   qualityLevelMark : {0}, qualityLevelRemove : {0},
                   qualityImmuneProbThreshold : {999},
                   qualityImmuneMultipleEngines : {FALSE},
                   minimumNumReplicates : {1},
                   decoySizeRatio : {1}, decoyConcatenate : {FALSE},
                   unidentifiedClusterMinimumDot : {70},
                   unidentifiedSingletonXreaThreshold : {50},
                   peakQuorum : {60},
                   qualityPenalizeSingletons : {FALSE}]
  /\ m_denoiser \in (IF m_params.buildAction = "CONSENSUS"
                       THEN {"NULL", "untrained", "ready"} ELSE {"NULL"})
  /\ \E n \in 1..MaxFiles : m_impFileNames \in [1..n -> FilesOf(MergeLibs)]
  /\ InitState

Next == import \/ ImportKey \/ NextFile \/ EndScan \/ ReloadSingleton

Spec == Init /\ [][Next]_vars

\* SUBTRACT_HOMOLOGS: libraries of at most MaxEntries entries
\* (the entry of sequence C is the one the filter predicate rejects)
HomologUniverse ==
  {[ion |-> k, pass |-> TRUE] : k \in {1, 3, 4, 6, 7}} \cup {[ion |-> 5, pass |-> FALSE]}

HomologLibs == {lib \in SUBSET HomologUniverse : Cardinality(lib) <= MaxEntries}

InitSH ==
  /\ m_params \in [combineAction : {"SUBTRACT_HOMOLOGS"},
                   buildAction : {""},
                   setFragmentation : {""},
                   refreshDatabase : {FALSE},
                   allowableModTokens : {FALSE},
                   qualityLevelMark : {0}, qualityLevelRemove : {0},
                   qualityImmuneProbThreshold : {999},
                   qualityImmuneMultipleEngines : {FALSE},
                   minimumNumReplicates : {1},
                   decoySizeRatio : {1}, decoyConcatenate : {FALSE},
                   unidentifiedClusterMinimumDot : {70},
                   unidentifiedSingletonXreaThreshold : {50},
                   peakQuorum : {60},
                   qualityPenalizeSingletons : {FALSE}]
  /\ m_denoiser = "NULL"
  /\ \E n \in 1..MaxFiles : m_impFileNames \in [1..n -> FilesOf(HomologLibs)]
  /\ InitState

NextSH == import \/ SubtractEntry \/ EndSubtract

SpecSH == InitSH /\ [][NextSH]_vars

\* every configuration, on libraries of one peptide ion
ConfigLibs == SUBSET ([ion : {1}, pass : BOOLEAN])

InitConfig ==
  /\ m_params \in [combineAction : CombineActions,
                   buildAction : BuildActions,
                   setFragmentation : {""},
                   refreshDatabase : BOOLEAN,
                   allowableModTokens : BOOLEAN,
                   qualityLevelMark : {0}, qualityLevelRemove : {0},
                   qualityImmuneProbThreshold : {999},
                   qualityImmuneMultipleEngines : {FALSE},
                   minimumNumReplicates : {1},
                   decoySizeRatio : {1}, decoyConcatenate : {FALSE},
                   unidentifiedClusterMinimumDot : {70},
                   unidentifiedSingletonXreaThreshold : {50},
                   peakQuorum : {60},
                   qualityPenalizeSingletons : {FALSE}]
  /\ m_denoiser = "NULL"
  /\ \E n \in 1..MaxFiles : m_impFileNames \in [1..n -> FilesOf(ConfigLibs)]
  /\ InitState

NextConfig == import

SpecConfig == InitConfig /\ [][NextConfig]_vars

\* QUALITY_FILTER: the records of the input library.  A record that is not
\* immune (probability below the threshold, one search engine) has 1, 2 or 3
\* replicates; an immune one and one the filter predicate rejects are singletons
\* with every defect.
QFRecords ==
  [pass : {TRUE}, prob : {900}, se : {1}, nreps : {1, 2},
   shared : BOOLEAN, conflict : BOOLEAN, impure : BOOLEAN]
  \cup
  [pass : {TRUE}, prob : {900}, se : {1}, nreps : {3},
   shared : {TRUE}, conflict : BOOLEAN, impure : BOOLEAN]
  \cup
  { [pass |-> TRUE,  prob |-> 1000, se |-> 1, nreps |-> 1,
     shared |-> FALSE, conflict |-> TRUE, impure |-> TRUE],
    [pass |-> TRUE,  prob |-> 1000, se |-> 2, nreps |-> 1,
     shared |-> FALSE, conflict |-> TRUE, impure |-> TRUE],
    [pass |-> TRUE,  prob |-> 900,  se |-> 2, nreps |-> 1,
     shared |-> FALSE, conflict |-> TRUE, impure |-> TRUE],
    [pass |-> FALSE, prob |-> 900,  se |-> 1, nreps |-> 1,
     shared |-> FALSE, conflict |-> TRUE, impure |-> TRUE] }

\* the peptide ions of a library of n entries
QFIons == <<1, 3, 6, 5>>

\* the spectrum of each peptide ion in these libraries: no two are similar
QFPeaks == <<"c", "d", "f", "g", "h", "i", "j", "k">>

\* the record r stored as the entry of peptide ion k; an impure spectrum has
\* half of its top peaks unassigned, a pure one a tenth
QFStored(k, r) ==
  [ion |-> k, pass |-> r.pass, prob |-> r.prob, se |-> r.se, nreps |-> r.nreps,
   shared |-> r.shared, conflict |-> r.conflict, peaks |-> QFPeaks[k],
   fracUnassignedTop20 |-> IF r.impure THEN 50 ELSE 10,
   numUnassignedTop20  |-> IF r.impure THEN 10 ELSE 2,
   numAssignedTop20    |-> IF r.impure THEN 10 ELSE 18]

\* unique libraries of n entries, at most MaxEntries
QFLibs(n) ==
  { {QFStored(QFIons[k], f[k]) : k \in 1..n} : f \in [1..n -> QFRecords] }

\* an order on the records
QFCode(r) ==
  r.nreps * 64 + (IF r.shared THEN 32 ELSE 0) + (IF r.conflict THEN 16 ELSE 0)
    + (IF r.impure THEN 8 ELSE 0) + (IF r.prob >= 1000 THEN 4 ELSE 0)
    + (IF r.se > 1 THEN 2 ELSE 0) + (IF r.pass THEN 0 ELSE 1)

\* unique libraries of at most MaxEntries entries that differ from one another,
\* stored in the order of QFCode
QFDistinctLibs ==
  { {QFStored(QFIons[Cardinality({t \in S : QFCode(t) <= QFCode(r)})], r) : r \in S}
    : S \in {T \in SUBSET QFRecords : Cardinality(T) <= MaxEntries} }

\* QUALITY_FILTER on one library, every pair of levels
InitQF ==
  /\ m_params \in [combineAction : {"UNION"},
                   buildAction : {"QUALITY_FILTER"},
                   setFragmentation : {""},
                   refreshDatabase : {FALSE},
                   allowableModTokens : {FALSE},
                   qualityLevelMark : 0..5, qualityLevelRemove : 0..5,
                   qualityImmuneProbThreshold : {999},
                   qualityImmuneMultipleEngines : {TRUE},
                   minimumNumReplicates : {3},
                   decoySizeRatio : {1}, decoyConcatenate : {FALSE},
                   unidentifiedClusterMinimumDot : {70},
                   unidentifiedSingletonXreaThreshold : {50},
                   peakQuorum : {60},
                   qualityPenalizeSingletons : {FALSE}]
  /\ m_denoiser = "NULL"
  /\ m_impFileNames \in [1..1 -> FilesOf(QFDistinctLibs)]
  /\ InitState

NextQF == import \/ QualityFilterEntry \/ EndQualityFilter

SpecQF == InitQF /\ [][NextQF]_vars

\* QUALITY_FILTER marking at every level and removing at none
InitQFStats ==
  /\ m_params \in [combineAction : {"UNION"},
                   buildAction : {"QUALITY_FILTER"},
                   setFragmentation : {""},
                   refreshDatabase : {FALSE},
                   allowableModTokens : {FALSE},
                   qualityLevelMark : {5}, qualityLevelRemove : {0},
                   qualityImmuneProbThreshold : {999},
                   qualityImmuneMultipleEngines : BOOLEAN,
                   minimumNumReplicates : {1, 2, 3},
                   decoySizeRatio : {1}, decoyConcatenate : {FALSE},
                   unidentifiedClusterMinimumDot : {70},
                   unidentifiedSingletonXreaThreshold : {50},
                   peakQuorum : {60},
                   qualityPenalizeSingletons : {FALSE}]
  /\ m_denoiser = "NULL"
  /\ \E n \in 0..MaxEntries : m_impFileNames \in [1..1 -> FilesOf(QFLibs(n))]
  /\ InitState

SpecQFStats == InitQFStats /\ [][NextQF]_vars

\* QUALITY_FILTER marking the impure entries: libraries of one entry that is
\* not immune, of charge 2 or 1, with or without a peptide
PurityRecords ==
  [ion : {1, 7, 8}, pass : {TRUE}, prob : {900}, se : {1}, nreps : {1, 2},
   shared : {TRUE}, conflict : {FALSE}, peaks : {"c"},
   fracUnassignedTop20 : {30, 40, 50},
   numUnassignedTop20 : 0..MaxPeaks,
   numAssignedTop20 : 0..MaxPeaks]

InitQFPurity ==
  /\ m_params \in [combineAction : {"UNION"},
                   buildAction : {"QUALITY_FILTER"},
                   setFragmentation : {""},
                   refreshDatabase : {FALSE},
                   allowableModTokens : {FALSE},
                   qualityLevelMark : {1}, qualityLevelRemove : {0},
                   qualityImmuneProbThreshold : {999},
                   qualityImmuneMultipleEngines : {FALSE},
                   minimumNumReplicates : {1},
                   decoySizeRatio : {1}, decoyConcatenate : {FALSE},
                   unidentifiedClusterMinimumDot : {70},
                   unidentifiedSingletonXreaThreshold : {50},
                   peakQuorum : {60},
                   qualityPenalizeSingletons : BOOLEAN]
  /\ m_denoiser = "NULL"
  /\ m_impFileNames \in [1..1 -> [opens : {TRUE}, lib : {{r} : r \in PurityRecords}]]
  /\ InitState

SpecQFPurity == InitQFPurity /\ [][NextQF]_vars

\* QUALITY_FILTER marking the conflicting identities: libraries of two entries
\* that are not immune.  A/2 and C/2 are 1.0 Th apart and not homologous, A/2
\* and B/2 are 2.0 Th apart and homologous, C/2 and D/2 are 9.0 Th apart and
\* not homologous
ConflictPairs == {<<1, 5>>, <<1, 3>>, <<5, 6>>}

ConflictRecords(k) ==
  [ion : {k}, pass : {TRUE}, prob : {800, 900}, se : {1}, nreps : {1, 2},
   shared : {TRUE}, conflict : {FALSE}, peaks : {"a", "b", "e"},
   fracUnassignedTop20 : {10}, numUnassignedTop20 : {2}, numAssignedTop20 : {18}]

ConflictLibs ==
  UNION { { {x, y} : x \in ConflictRecords(P[1]), y \in ConflictRecords(P[2]) }
          : P \in ConflictPairs }

InitQFConflict ==
  /\ m_params \in [combineAction : {"UNION"},
                   buildAction : {"QUALITY_FILTER"},
                   setFragmentation : {""},
                   refreshDatabase : {FALSE},
                   allowableModTokens : {FALSE},
                   qualityLevelMark : {2}, qualityLevelRemove : {0},
                   qualityImmuneProbThreshold : {999},
                   qualityImmuneMultipleEngines : {FALSE},
                   minimumNumReplicates : {1},
                   decoySizeRatio : {1}, decoyConcatenate : {FALSE},
                   unidentifiedClusterMinimumDot : {70},
                   unidentifiedSingletonXreaThreshold : {50},
                   peakQuorum : {60},
                   qualityPenalizeSingletons : BOOLEAN]
  /\ m_denoiser = "NULL"
  /\ m_impFileNames \in [1..1 -> [opens : {TRUE}, lib : ConflictLibs]]
  /\ InitState

SpecQFConflict == InitQFConflict /\ [][NextQF]_vars

\* DECOY: unique libraries of at most MaxEntries entries; the entries of A/2/ETD
\* and B/3 are the ones the filter predicate rejects
DecoyUniverse ==
  {[ion |-> k, pass |-> TRUE] : k \in {1, 2, 3, 7}}
    \cup {[ion |-> k, pass |-> FALSE] : k \in {2, 4}}

DecoyLibs ==
  {lib \in SUBSET DecoyUniverse : Cardinality(lib) <= MaxEntries /\ isUniqueLibrary(lib)}

InitDecoy ==
  /\ m_params \in [combineAction : {"UNION"},
                   buildAction : {"DECOY"},
                   setFragmentation : {""},
                   refreshDatabase : {FALSE},
                   allowableModTokens : {FALSE},
                   qualityLevelMark : {0}, qualityLevelRemove : {0},
                   qualityImmuneProbThreshold : {999},
                   qualityImmuneMultipleEngines : {FALSE},
                   minimumNumReplicates : {1},
                   decoySizeRatio : 0..2, decoyConcatenate : BOOLEAN,
                   unidentifiedClusterMinimumDot : {70},
                   unidentifiedSingletonXreaThreshold : {50},
                   peakQuorum : {60},
                   qualityPenalizeSingletons : {FALSE}]
  /\ m_denoiser = "NULL"
  /\ m_impFileNames \in [1..1 -> FilesOf(DecoyLibs)]
  /\ InitState

NextDecoy == import \/ GenerateDecoyPeptide \/ GenerateDecoyFold \/ EndGenerateDecoy

SpecDecoy == InitDecoy /\ [][NextDecoy]_vars

\* SIMILARITY_CLUSTERING: libraries of n spectra, at most MaxSpectra, stored at the
\* offsets 1, 2, ...; what the filter predicate, the replicate count, Xrea and
\* the signal-to-noise ratio are goes by the offset
ClusterMzs == {1000, 1020, 1040}

ClusterPeaks == {"a", "b", "c", "d"}

ClusterRecord(k, mz, peaks) ==
  [offset |-> k, mz |-> mz, peaks |-> peaks,
   pass  |-> k # 3,
   nreps |-> IF k = 4 THEN 2 ELSE 1,
   xrea  |-> IF k = 2 THEN 10 ELSE 60,
   sn    |-> 100 - 10 * k]

ClusterLibs(n) ==
  { {ClusterRecord(k, f[k][1], f[k][2]) : k \in 1..n}
    : f \in [1..n -> ClusterMzs \X ClusterPeaks] }

InitCluster ==
  /\ m_params \in [combineAction : {"UNION"},
                   buildAction : {"SIMILARITY_CLUSTERING"},
                   setFragmentation : {""},
                   refreshDatabase : {FALSE},
                   allowableModTokens : {FALSE},
                   qualityLevelMark : {0}, qualityLevelRemove : {0},
                   qualityImmuneProbThreshold : {999},
                   qualityImmuneMultipleEngines : {FALSE},
                   minimumNumReplicates : {1},
                   decoySizeRatio : {1}, decoyConcatenate : {FALSE},
                   unidentifiedClusterMinimumDot : {70, 100},
                   unidentifiedSingletonXreaThreshold : {50},
                   peakQuorum : {60},
                   qualityPenalizeSingletons : {FALSE}]
  /\ m_denoiser = "NULL"
  /\ \E n \in 0..MaxSpectra : m_impFileNames \in [1..1 -> FilesOf(ClusterLibs(n))]
  /\ InitState

NextCluster == import \/ ClusterOffset \/ EndClustering \/ MergeCluster \/ EndMerge

SpecCluster == InitCluster /\ [][NextCluster]_vars

---------------------------------------------------------------------------
(* Properties *)

Done == pc = "done"

NumFiles == Len(m_impFileNames)

Opened(i) == m_impFileNames[i].opens

\* the library of input 1
A == m_impFileNames[1].lib

\* the input list is [A, A], both readable
SelfMerge ==
  /\ NumFiles = 2
  /\ Opened(1)
  /\ m_impFileNames[2] = m_impFileNames[1]

AllPass == \A x \in A : x.pass

\* how often the entry x of an input library was written to the output
TimesWritten(x) ==
  Cardinality({n \in 1..Len(m_lib.entries) :
                 /\ m_lib.entries[n].ion = x.ion
                 /\ m_lib.entries[n].pass = x.pass
                 /\ m_lib.entries[n].src > 0})

\* how often a key was handed to doBuildAction by the loop of import()
TimesHanded(key) ==
  Cardinality({n \in 1..Len(handed) : handed[n].key = key /\ handed[n].pass > 0})

\* the opened inputs that hold the key
Holders(key) == {i \in 1..NumFiles : Opened(i) /\ \E x \in m_impFileNames[i].lib : IonKey(x.ion) = key}

Errors == {n \in 1..Len(g_log) : g_log[n].level = "error"}

\* C1, as claimed: UNION over [A, A] without build action, all entries passing
\* the filter, writes exactly A, every entry exactly once.
C1_UnionSelfIsA ==
  (Done /\ SelfMerge /\ AllPass
     /\ m_params.combineAction = "UNION" /\ m_params.buildAction = "")
  => /\ Len(m_lib.entries) = Cardinality(A)
     /\ \A x \in A : TimesWritten(x) = 1

\* C1, amended: UNION over [A, A] without build action, all entries passing the
\* filter, hands every key of A to doBuildAction at least once, each time with
\* the entries of both copies, so that every entry of A is written twice per
\* inclusion of its key; the key is included exactly once (the entry written
\* exactly twice) when processEntry leaves the subkey as it is.
C1_UnionSelfWritesTwice ==
  (Done /\ SelfMerge /\ AllPass
     /\ m_params.combineAction = "UNION" /\ m_params.buildAction = "")
  => \A x \in A :
       /\ TimesHanded(IonKey(x.ion)) >= 1
       /\ TimesWritten(x) = 2 * TimesHanded(IonKey(x.ion))
       /\ m_params.setFragmentation = "" => TimesWritten(x) = 2

C1_Witness ==
  /\ Done /\ SelfMerge /\ AllPass /\ A # {}
  /\ m_params.combineAction = "UNION" /\ m_params.buildAction = ""
  /\ m_params.setFragmentation = ""
  /\ Len(m_lib.entries) = 2 * Cardinality(A)

\* C2, as claimed: INTERSECT over [A, A] without build action, all entries
\* passing the filter, writes each entry of A exactly once.
C2_IntersectSelfIsA ==
  (Done /\ SelfMerge /\ AllPass
     /\ m_params.combineAction = "INTERSECT" /\ m_params.buildAction = "")
  => /\ Len(m_lib.entries) = Cardinality(A)
     /\ \A x \in A : TimesWritten(x) = 1

\* C2, amended: INTERSECT over [A, A] without build action, all entries passing
\* the filter, includes every key of A once and writes each entry of A exactly
\* twice, once retrieved from each copy.
C2_IntersectSelfWritesTwice ==
  (Done /\ SelfMerge /\ AllPass
     /\ m_params.combineAction = "INTERSECT" /\ m_params.buildAction = "")
  => /\ Len(m_lib.entries) = 2 * Cardinality(A)
     /\ \A x \in A :
          /\ TimesHanded(IonKey(x.ion)) = 1
          /\ TimesWritten(x) = 2
          /\ \A i \in {1, 2} : \E n \in 1..Len(m_lib.entries) :
               /\ m_lib.entries[n].ion = x.ion
               /\ m_lib.entries[n].src = i

C2_Witness ==
  /\ Done /\ SelfMerge /\ AllPass /\ Cardinality(A) = 2
  /\ m_params.combineAction = "INTERSECT" /\ m_params.buildAction = ""
  /\ Len(m_lib.entries) = 4

\* C3: under SUBTRACT a key of input 1 is handed to doBuildAction iff no other
\* opened input holds it, with entries retrieved from input 1 only; SUBTRACT
\* over [A, A] writes nothing.
C3_Subtract ==
  m_params.combineAction = "SUBTRACT" =>
    /\ \A n \in 1..Len(handed) :
         /\ 1 \in Holders(handed[n].key)
         /\ Holders(handed[n].key) = {1}
         /\ handed[n].entries # <<>>
         /\ \A m \in 1..Len(handed[n].entries) : handed[n].entries[m].src = 1
    /\ (Done /\ Opened(1)) =>
         \A x \in A : Holders(IonKey(x.ion)) = {1} =>
           \E n \in 1..Len(handed) : handed[n].key = IonKey(x.ion) /\ handed[n].pass > 0
    /\ (Done /\ SelfMerge) => m_lib.entries = <<>>

C3_Witness ==
  /\ Done /\ m_params.combineAction = "SUBTRACT" /\ NumFiles = 2 /\ Opened(2)
  /\ handed # <<>>
  /\ \E x \in A : Holders(IonKey(x.ion)) = {1, 2}

\* C5, as claimed: under INTERSECT a key is handed to doBuildAction only if
\* every input 2..N holds it, an input that could not be opened holding no key.
C5_IntersectEveryInput ==
  m_params.combineAction = "INTERSECT" =>
    \A n \in 1..Len(handed) : \A i \in 2..NumFiles : i \in Holders(handed[n].key)

\* C6: under APPEND the entries handed to doBuildAction are exactly the entries
\* of the lowest-numbered opened input that holds the key, in the loop of
\* import() and in the pass over the deferred singletons alike.
C6_AppendFirstHolder ==
  m_params.combineAction = "APPEND" =>
    \A n \in 1..Len(handed) :
      LET h == handed[n]
          S == Holders(h.key)
      IN  /\ S # {}
          /\ LET first == CHOOSE i \in S : \A j \in S : i <= j
                 mine  == {x \in m_impFileNames[first].lib : IonKey(x.ion) = h.key}
             IN  /\ Len(h.entries) = Cardinality(mine)
                 /\ \A m \in 1..Len(h.entries) :
                      /\ h.entries[m].src = first
                      /\ [ion |-> h.entries[m].ion, pass |-> h.entries[m].pass] \in mine

C6_Witness ==
  /\ Done /\ m_params.combineAction = "APPEND"
  /\ \E n \in 1..Len(handed) : handed[n].pass > 0 /\ Cardinality(Holders(handed[n].key)) > 1
  /\ \E n \in 1..Len(handed) : handed[n].pass = 0 /\ Cardinality(Holders(handed[n].key)) > 1

\* C7, as claimed: under UNION or APPEND every key of an opened input is handed
\* to doBuildAction by the loop of import() exactly once over the whole run.
C7_IncludedExactlyOnce ==
  m_params.combineAction \in {"UNION", "APPEND"} =>
    /\ \A n \in 1..Len(handed) : TimesHanded(handed[n].key) <= 1
    /\ (Done /\ Opened(1)) =>
         \A i \in 1..NumFiles : \A x \in m_impFileNames[i].lib :
           TimesHanded(IonKey(x.ion)) = 1

\* C8, as claimed: with UNION, APPEND, INTERSECT or SUBTRACT, if input 1 cannot
\* be opened import() returns with nothing written, neither preamble nor entry.
C8_NoOutputWhenFirstInputFails ==
  (Done /\ ~Opened(1)
     /\ m_params.combineAction \in {"UNION", "APPEND", "INTERSECT", "SUBTRACT"}
     /\ m_params.buildAction \in {"", "BEST_REPLICATE", "CONSENSUS"})
  => /\ ~m_lib.preamble
     /\ m_lib.entries = <<>>

\* an entry of another opened input that removes e under SUBTRACT_HOMOLOGS:
\* within 4.5 Th, identical peptide or homolog (identity 0.7) at the same charge
HasHomologElsewhere(e) ==
  \E i \in 2..NumFiles : \E x \in m_impFileNames[i].lib :
    /\ Opened(i)
    /\ IonTable[x.ion].pep
    /\ IonTable[x.ion].mz - IonTable[e.ion].mz <= 45
    /\ IonTable[e.ion].mz - IonTable[x.ion].mz <= 45
    /\ \/ /\ IonTable[x.ion].seq = IonTable[e.ion].seq
          /\ IonTable[x.ion].charge = IonTable[e.ion].charge
       \/ /\ IonTable[x.ion].charge = IonTable[e.ion].charge
          /\ Identity(IonTable[x.ion].seq, IonTable[e.ion].seq) >= 70

\* C4: under SUBTRACT_HOMOLOGS an entry of input 1 is inserted only if no entry
\* of another opened input within 4.5 Th has the identical peptide or is a
\* homolog at the same charge; SUBTRACT_HOMOLOGS over [A, A] writes nothing.
C4_SubtractHomologs ==
  m_params.combineAction = "SUBTRACT_HOMOLOGS" =>
    /\ \A n \in 1..Len(m_lib.entries) :
         /\ m_lib.entries[n].src = 1
         /\ ~HasHomologElsewhere(m_lib.entries[n])
    /\ SelfMerge => m_lib.entries = <<>>

C4_Witness ==
  /\ Done /\ m_params.combineAction = "SUBTRACT_HOMOLOGS"
  /\ NumFiles = 2 /\ Opened(2)
  /\ m_lib.entries # <<>>
  /\ \E n \in 1..Len(g_log) :
       /\ g_log[n].text # <<>> /\ g_log[n].text[1] = "removed"
       /\ g_log[n].text[4] >= 70

\* the configuration conflicts
Conflict ==
  \/ m_params.combineAction = "SUBTRACT_HOMOLOGS" /\ m_params.buildAction # ""
  \/ m_params.buildAction \in SingleFileBuildActions /\ NumFiles # 1

\* C9: a configuration conflict ends the run with an error logged, no input
\* opened and nothing written to the output library.
C9_ConflictWritesNothing ==
  (pc # "start" /\ Conflict) =>
    /\ Done
    /\ Errors # {}
    /\ m_splibFins = <<>> /\ m_pepIndices = <<>> /\ m_mzIndices = <<>>
    /\ ~m_lib.preamble
    /\ m_lib.entries = <<>>

C9_Witness ==
  /\ Done /\ NumFiles = 2 /\ Errors # {}
  /\ m_params.buildAction = "SIMILARITY_CLUSTERING"
  /\ m_params.combineAction = "UNION"

\* C10: for QUALITY_FILTER, DECOY and USER_SPECIFIED_MODS, a single input that
\* opens but is non-unique ends the run with an error logged, before the
\* preamble is written and before any entry is inserted.
C10_NonUniqueWritesNothing ==
  (pc # "start" /\ NumFiles = 1 /\ Opened(1) /\ ~isUniqueLibrary(A)
     /\ m_params.buildAction \in {"QUALITY_FILTER", "DECOY", "USER_SPECIFIED_MODS"})
  => /\ Done
     /\ Errors # {}
     /\ ~m_lib.preamble
     /\ m_lib.entries = <<>>

C10_Witness ==
  /\ Done /\ NumFiles = 1 /\ Opened(1) /\ ~isUniqueLibrary(A)
  /\ m_params.buildAction = "DECOY" /\ m_params.combineAction = "UNION"
  /\ m_splibFins = <<TRUE>> /\ m_pepIndices = <<FALSE>>
  /\ \E n \in Errors : g_log[n].tag = "DECOY"

\* the entries doQualityFilter has handed to applyQualityFilter so far
QFProcessed ==
  IF pc \in {"qf", "done"} /\ m_params.buildAction = "QUALITY_FILTER" /\ m_mzIndices = <<TRUE>>
    THEN LET es == QFEntries
         IN  {es[n] : n \in {k \in 1..cursor : es[k].pass}}
    ELSE {}

QFImmune(e) ==
  \/ e.prob >= m_params.qualityImmuneProbThreshold
  \/ m_params.qualityImmuneMultipleEngines /\ e.se > 1

\* the condition of level L holds for the entry
QFTriggers(e, L) ==
  LET quorum == IF m_params.minimumNumReplicates < 2 THEN 2 ELSE m_params.minimumNumReplicates
  IN  CASE L = 5 -> e.nreps < quorum
        [] L = 4 -> e.nreps = 1
        [] L = 3 -> e.nreps < quorum /\ ~e.shared
        [] L = 2 -> e.conflict
        [] L = 1 -> e.fracUnassignedTop20 >= 40

QFLabel(L) ==
  CASE L = 5 -> "Inquorate"
    [] L = 4 -> "Singleton"
    [] L = 3 -> "Inquorate_Unconfirmed"
    [] L = 2 -> "Conflicting_ID"
    [] L = 1 -> "Impure"

QFLogged(verb, L, e) ==
  \E n \in 1..Len(g_log) :
    g_log[n].tag = "QUALITY_FILTER" /\ g_log[n].text = <<verb, QFLabel(L), e.ion>>

\* the evaluation of the entry gets to level L: no higher level removed it
QFReaches(e, L) ==
  \A H \in (L + 1)..5 : ~(QFTriggers(e, H) /\ m_params.qualityLevelRemove >= H)

QFInserted(e) == \E n \in 1..Len(m_lib.entries) : m_lib.entries[n].ion = e.ion

\* C11: for a non-immune entry and a level L whose condition holds when the
\* evaluation gets to it: with qualityLevelRemove >= L the entry is removed (a
\* removal is logged, the entry is not inserted), whatever qualityLevelMark;
\* otherwise with qualityLevelMark >= L the entry is marked with the label of L
\* and the lower levels are evaluated in turn, so that an inserted entry carries
\* the label of the lowest level that marked it.
C11_RemoveBeforeMark ==
  \A e \in QFProcessed :
    LET marked == {L \in 1..5 : QFTriggers(e, L) /\ m_params.qualityLevelMark >= L}
    IN  ~QFImmune(e) =>
          /\ \A L \in 1..5 :
               (QFTriggers(e, L) /\ QFReaches(e, L)) =>
                 /\ m_params.qualityLevelRemove >= L =>
                      /\ QFLogged("Remove", L, e)
                      /\ ~QFLogged("Mark", L, e)
                      /\ ~QFInserted(e)
                 /\ (m_params.qualityLevelRemove < L /\ m_params.qualityLevelMark >= L) =>
                      /\ QFLogged("Mark", L, e)
                      /\ \A K \in 1..(L - 1) :
                           (QFTriggers(e, K) /\ QFReaches(e, K)
                              /\ (m_params.qualityLevelRemove >= K \/ m_params.qualityLevelMark >= K))
                           => (QFLogged("Remove", K, e) \/ QFLogged("Mark", K, e))
          /\ QFInserted(e) =>
               \A m \in 1..Len(m_lib.entries) :
                 m_lib.entries[m].ion = e.ion =>
                   m_lib.entries[m].status =
                     (IF marked = {} THEN "Normal"
                      ELSE QFLabel(CHOOSE L \in marked : \A K \in marked : L <= K))

C11_Witness ==
  /\ Done
  /\ m_params.qualityLevelMark = 5 /\ m_params.qualityLevelRemove = 2
  /\ \E e \in QFProcessed :
       /\ QFLogged("Mark", 5, e) /\ QFLogged("Mark", 4, e) /\ QFLogged("Mark", 3, e)
       /\ QFLogged("Remove", 2, e)
       /\ ~QFInserted(e)
  /\ \E e \in QFProcessed : QFInserted(e) /\ QFLogged("Mark", 5, e)

\* the second record of the statistics: <<"levels", Level 0, ..., Level 5>>
QFLevels == g_log[Len(g_log)].text

\* an entry that triggered none of the concerns Q1..Qk
QFCleanUpTo(e, k) == QFImmune(e) \/ \A L \in 1..k : ~QFTriggers(e, L)

\* C12: with qualityLevelMark >= 5 and qualityLevelRemove = 0, for every k in
\* 1..5 the value "Level k" logged by doQualityFilter equals the number of
\* processed entries, immune ones included, that triggered none of Q1..Qk (and
\* "Level 0" is the number of processed entries).
C12_LevelsByInclusionExclusion ==
  (Done /\ m_params.buildAction = "QUALITY_FILTER" /\ m_mzIndices = <<TRUE>>
     /\ m_params.qualityLevelMark >= 5 /\ m_params.qualityLevelRemove = 0)
  => /\ g_log # <<>>
     /\ g_log[Len(g_log)].tag = "QUALITY_FILTER STATS"
     /\ QFLevels[1] = "levels"
     /\ QFLevels[2] = Cardinality(QFProcessed)
     /\ \A k \in 1..5 :
          QFLevels[k + 2] = Cardinality({e \in QFProcessed : QFCleanUpTo(e, k)})

C12_Witness ==
  /\ Done /\ m_params.buildAction = "QUALITY_FILTER" /\ m_mzIndices = <<TRUE>>
  /\ m_params.qualityLevelMark = 5 /\ m_params.qualityLevelRemove = 0
  /\ Cardinality(QFProcessed) = 2
  /\ qfstats.Q1Q2Q3Q4Q5 = 1
  /\ qfstats.immuneProb = 1
  /\ QFLevels[3] = 1 /\ QFLevels[7] = 1

\* the processed entries that are not immune and have one replicate
QFSingletons == {e \in QFProcessed : ~QFImmune(e) /\ e.nreps = 1}

\* C13, as claimed: with qualityLevelRemove = 5 and minimumNumReplicates = 3, a
\* non-immune entry with one replicate is removed and counted under Q5 and
\* under Q4.
C13_SingletonUnderQ5AndQ4 ==
  (m_params.qualityLevelRemove = 5 /\ m_params.minimumNumReplicates = 3)
  => /\ \A e \in QFSingletons : ~QFInserted(e)
     /\ qfstats.Q5 >= Cardinality(QFSingletons)
     /\ qfstats.Q4 >= Cardinality(QFSingletons)

\* C13, amended: with qualityLevelRemove = 5 and minimumNumReplicates = 3, a
\* non-immune entry with one replicate is removed at level 5 (removal logged,
\* entry not inserted) and counted under Q5 only: applyQualityFilter returns
\* before level 4, and Q4 and Q4Q5 stay as they were.
C13_SingletonUnderQ5Only ==
  (m_params.qualityLevelRemove = 5 /\ m_params.minimumNumReplicates = 3)
  => /\ \A e \in QFSingletons :
          /\ ~QFInserted(e)
          /\ QFLogged("Remove", 5, e)
          /\ ~QFLogged("Remove", 4, e)
     /\ qfstats.Q5 >= Cardinality(QFSingletons)
     /\ qfstats.Q5 = Cardinality({e \in QFProcessed : ~QFImmune(e) /\ e.nreps < 3})
     /\ qfstats.Q4 = 0
     /\ qfstats.Q4Q5 = 0

C13_Witness ==
  /\ Done /\ m_params.qualityLevelRemove = 5 /\ m_params.minimumNumReplicates = 3
  /\ Cardinality(m_impFileNames[1].lib) = 1
  /\ Cardinality(QFSingletons) = 1
  /\ qfstats.Q5 = 1 /\ qfstats.Q4 = 0
  /\ m_lib.preamble /\ m_lib.entries = <<>>


\* the records of input 1 with the stripped sequence p
VariantsOf(p) == {x \in A : IonTable[x.ion].seq = p}

\* the stripped sequences of input 1 that are peptides
RealPeptides == {IonTable[x.ion].seq : x \in {y \in A : IonTable[y.ion].pep}}

\* the positions of the output library that hold a decoy of the record x
DecoysOf(x) ==
  {n \in 1..Len(m_lib.entries) :
     m_lib.entries[n].status = "Decoy" /\ m_lib.entries[n].ion = x.ion}

DecoysOfPeptide(p) ==
  {n \in 1..Len(m_lib.entries) :
     m_lib.entries[n].status = "Decoy" /\ IonTable[m_lib.entries[n].ion].seq = p}

DecoyRun ==
  /\ Done /\ m_params.buildAction = "DECOY"
  /\ NumFiles = 1 /\ Opened(1) /\ isUniqueLibrary(A)

\* C14, as claimed: with decoy size ratio K, every real peptide sequence of a
\* unique library gets exactly K x (number of its subkey variants) decoys.
C14_DecoysPerVariant ==
  DecoyRun =>
    \A p \in RealPeptides :
      Cardinality(DecoysOfPeptide(p)) = m_params.decoySizeRatio * Cardinality(VariantsOf(p))

\* C14, amended: with decoy size ratio K, every real peptide sequence of a
\* unique library gets exactly K x (number of its subkey variants whose entry
\* passes the filter predicate) decoys: such a variant gets exactly one decoy
\* per fold 0..K-1, inserted into the output, a variant whose entry fails the
\* filter gets none, and neither does a sequence that is not a peptide.
C14_DecoysPerPassingVariant ==
  DecoyRun =>
    /\ \A p \in RealPeptides :
         Cardinality(DecoysOfPeptide(p)) =
           m_params.decoySizeRatio * Cardinality({x \in VariantsOf(p) : x.pass})
    /\ \A x \in A :
         IF x.pass /\ IonTable[x.ion].pep
           THEN /\ Cardinality(DecoysOf(x)) = m_params.decoySizeRatio
                /\ \A f \in 0..(m_params.decoySizeRatio - 1) :
                     \E n \in DecoysOf(x) : m_lib.entries[n].fold = f
           ELSE DecoysOf(x) = {}

C14_Witness ==
  /\ DecoyRun /\ m_params.decoySizeRatio = 2
  /\ [ion |-> 1, pass |-> TRUE] \in A /\ [ion |-> 2, pass |-> FALSE] \in A
  /\ Cardinality(DecoysOfPeptide("A")) = 2
  /\ Cardinality(DecoysOf([ion |-> 1, pass |-> TRUE])) = 2

\* C15: at every call of the shuffler the exclusion sets hold every real
\* stripped sequence of the library and every decoy sequence generated earlier
\* in the run, each under its own length; so every decoy sequence written
\* differs from every real sequence and from the decoy sequence of every other
\* call of the shuffler.
C15_ExclusionSetComplete ==
  m_params.buildAction = "DECOY" =>
    /\ \A n \in 1..Len(shuffled) :
         /\ \A r \in getAllSequences : r \in shuffled[n].excluded[NAA(r)]
         /\ \A m \in 1..(n - 1) :
              shuffled[m].result \in shuffled[n].excluded[NAA(shuffled[m].result)]
         /\ \A m \in 1..(n - 1) : shuffled[m].result # shuffled[n].result
         /\ shuffled[n].result \notin getAllSequences
    /\ \A n \in 1..Len(m_lib.entries) :
         m_lib.entries[n].status = "Decoy" =>
           /\ m_lib.entries[n].seq \notin getAllSequences
           /\ \A m \in 1..Len(m_lib.entries) :
                (m_lib.entries[m].status = "Decoy"
                   /\ m_lib.entries[m].seq = m_lib.entries[n].seq)
                => /\ IonTable[m_lib.entries[m].ion].seq = IonTable[m_lib.entries[n].ion].seq
                   /\ m_lib.entries[m].fold = m_lib.entries[n].fold

C15_Witness ==
  /\ DecoyRun
  /\ Len(shuffled) = 4
  /\ shuffled[1].orig = "A" /\ shuffled[1].result = "P"
  /\ "B" \in shuffled[1].excluded[7]
  /\ shuffled[3].orig = "B"
  /\ "P" \in shuffled[3].excluded[7] /\ "AX" \in shuffled[3].excluded[9]
  /\ \E n \in 1..Len(m_lib.entries) :
       m_lib.entries[n].status = "Decoy" /\ m_lib.entries[n].seq = "BX"


\* the file offsets of the entries of input 1
AllOffsets == {x.offset : x \in A}

\* the multi-member clusters that hold the offset
ClustersOf(o) == {i \in 1..Len(multiclusters) : o \in multiclusters[i]}

\* C16: every file offset that doSimilarityClustering has mapped is in exactly
\* one cluster: mapped to -1 and member of no multi-member cluster, or mapped
\* to the index of the one multi-member cluster that holds it; every
\* multi-member cluster has at least 2 members; and when the first loop has
\* finished every offset of the input library is mapped.
C16_OffsetsPartitioned ==
  (m_params.buildAction = "SIMILARITY_CLUSTERING" /\ pc \in {"cluster", "merge", "done"}
     /\ m_mzIndices = <<TRUE>>)
  => /\ \A o \in DOMAIN clusteredEntries :
          /\ o \in AllOffsets
          /\ \/ clusteredEntries[o] = -1 /\ ClustersOf(o) = {}
             \/ /\ clusteredEntries[o] \in 0..(Len(multiclusters) - 1)
                /\ ClustersOf(o) = {clusteredEntries[o] + 1}
     /\ \A i \in 1..Len(multiclusters) :
          /\ Cardinality(multiclusters[i]) >= 2
          /\ multiclusters[i] \subseteq DOMAIN clusteredEntries
     /\ pc \in {"merge", "done"} => DOMAIN clusteredEntries = AllOffsets

C16_Witness ==
  /\ pc = "merge" /\ m_params.buildAction = "SIMILARITY_CLUSTERING"
  /\ multiclusters = <<{1, 2}>>
  /\ DOMAIN clusteredEntries = {1, 2, 3}
  /\ clusteredEntries[3] = -1 /\ clusteredEntries[1] = 0 /\ clusteredEntries[2] = 0
  /\ \E x, y \in A :
       /\ x.offset = 2 /\ y.offset = 3
       /\ x.peaks = y.peaks
       /\ y.mz - x.mz <= 25 /\ x.mz - y.mz <= 25

\* C17, as claimed: in no round and for no unidentifiedClusterMinimumDot is a
\* candidate added to the cluster by a comparison whose dot product is below
\* 0.3.
C17_NoNeighborBelowHopeless ==
  \A n \in 1..Len(added) : added[n].dot >= 30

---------------------------------------------------------------------------
(* BEST_REPLICATE and CONSENSUS under a merge by key *)

\* the entries of the output library that stem from the entries of a peptide ion
WrittenOf(k) == {n \in 1..Len(m_lib.entries) : m_lib.entries[n].ion = k}

\* C18, as claimed: under UNION and BEST_REPLICATE a peptide-ion key yields at
\* most one output entry, which passes the filter predicate, and two
\* libraries holding one passing entry each, of the same peptide ion, give an
\* output of exactly one entry.
C18_BestReplicateOnePerKey ==
  (m_params.combineAction = "UNION" /\ m_params.buildAction = "BEST_REPLICATE") =>
    /\ \A k \in Ions : Cardinality(WrittenOf(k)) <= 1
    /\ \A n \in 1..Len(m_lib.entries) : m_lib.entries[n].pass
    /\ \A k \in MergeIons :
         (/\ Done /\ NumFiles = 2
          /\ \A i \in 1..2 : /\ Opened(i)
                             /\ m_impFileNames[i].lib = {[ion |-> k, pass |-> TRUE]})
           => Len(m_lib.entries) = 1

\* the call of doBuildAction a step makes, if it makes one
Called == handed'[Len(handed')]

\* the consensus entry of a recorded call
ConsensusOf(h) == makeConsensusSpectrum(h.entries, h.used)

\* C19: under CONSENSUS, a call of doBuildAction whose consensus passes the
\* filter predicate appends the (sequence, subkey) pair of the consensus to
\* m_singletonPeptideIons and inserts nothing if a denoiser exists, is not
\* ready and the consensus used one replicate; otherwise it inserts the
\* consensus and leaves m_singletonPeptideIons as it was.
C19_DeferredIffUntrainedSingleton ==
  [][(/\ m_params.buildAction = "CONSENSUS"
      /\ Len(handed') = Len(handed) + 1
      /\ Called.entries # <<>>
      /\ passAllFilters(ConsensusOf(Called)))
       => IF m_denoiser # "NULL" /\ m_denoiser # "ready" /\ Called.used = 1
            THEN /\ m_singletonPeptideIons' =
                      Append(m_singletonPeptideIons, KeyOf(ConsensusOf(Called)))
                 /\ m_lib' = m_lib
            ELSE /\ m_lib'.entries = Append(m_lib.entries, processEntry(ConsensusOf(Called)))
                 /\ m_singletonPeptideIons' = m_singletonPeptideIons]_vars

\* a run with an untrained denoiser that deferred one consensus and inserted
\* another, made of two replicates
C19_Witness ==
  /\ m_params.buildAction = "CONSENSUS" /\ pc = "scan" /\ m_denoiser = "untrained"
  /\ m_singletonPeptideIons # <<>>
  /\ \E n \in 1..Len(handed) :
       /\ handed[n].used = 2 /\ passAllFilters(ConsensusOf(handed[n]))
       /\ \E m \in 1..Len(m_lib.entries) : m_lib.entries[m].nreps = 2
  /\ \E n \in 1..Len(handed) :
       /\ handed[n].used = 1 /\ Len(handed[n].entries) = 2
       /\ passAllFilters(ConsensusOf(handed[n]))

\* the calls of doBuildAction made by reloadAndProcessSingletons
Reloads == {n \in 1..Len(handed) : handed[n].pass = 0}

\* the peptide ions remembered in m_singletonPeptideIons
Deferred == {m_singletonPeptideIons[n] : n \in 1..Len(m_singletonPeptideIons)}

\* the entries of the output library that stem from the entries of a key
WrittenOfKey(key) == {n \in 1..Len(m_lib.entries) : IonKey(m_lib.entries[n].ion) = key}

\* C20, as claimed: when the loop of import() ends with a denoiser and a
\* non-empty m_singletonPeptideIons, the model is trained before any deferred
\* ion is processed again; every distinct deferred ion goes through
\* doBuildAction once more, exactly once, is not deferred again, and is written
\* exactly once if its consensus passes the filter predicate.
C20_DeferredProcessedOnce ==
  /\ \A n \in Reloads :
       /\ handed[n].denoiser = "ready"
       /\ handed[n].key \in Deferred
       /\ Cardinality({m \in Reloads : handed[m].key = handed[n].key}) = 1
       /\ \A m \in 1..Len(handed) : handed[m].denoiser = "untrained" => m < n
  /\ pc = "reload" => m_denoiser = "ready" /\ m_singletonPeptideIons # <<>>
  /\ (Done /\ m_denoiser # "NULL") =>
       \A key \in Deferred :
         /\ \E n \in Reloads : handed[n].key = key
         /\ Cardinality({n \in 1..Len(m_singletonPeptideIons) :
                           m_singletonPeptideIons[n] = key}) = 1
         /\ \A n \in Reloads :
              (handed[n].key = key /\ passAllFilters(ConsensusOf(handed[n])))
                => Cardinality(WrittenOfKey(key)) = 1

---------------------------------------------------------------------------
(* applyQualityFilter: quorum, immunity, peak quorum, counters, status *)

\* the processed entries that are not immune
QFExamined == {e \in QFProcessed : ~QFImmune(e)}

\* fewer replicates than max(2, minimumNumReplicates)
QFInquorate(e) ==
  /\ e.nreps < 2 \/ e.nreps < m_params.minimumNumReplicates

QCounters == QFCounters \ {"immuneProb", "immuneEngine"}

\* the entry of the output library written for a processed entry
QFWritten(e) == {n \in 1..Len(m_lib.entries) : m_lib.entries[n].ion = e.ion}

QFAnyLog(e) ==
  \E n \in 1..Len(g_log) :
    /\ g_log[n].tag = "QUALITY_FILTER" /\ Len(g_log[n].text) = 3 /\ g_log[n].text[3] = e.ion

\* C22: for every qualityLevelMark and qualityLevelRemove, an entry whose
\* probability reaches qualityImmuneProbThreshold, or that more than one search
\* engine identified when qualityImmuneMultipleEngines is set, is kept with
\* status Normal and nothing logged; it counts in immuneProb if its probability
\* makes it immune and in immuneEngine otherwise, and in no Q counter.
C22_ImmuneBeforeEveryLevel ==
  LET processed == QFProcessed
      examined  == {e \in processed : ~QFImmune(e)}
      nexamined == Cardinality(examined)
  IN  /\ \A e \in processed :
           QFImmune(e) =>
             /\ Cardinality(QFWritten(e)) = 1
             /\ \A n \in QFWritten(e) : m_lib.entries[n].status = "Normal"
             /\ ~QFAnyLog(e)
      /\ qfstats.immuneProb =
           Cardinality({e \in processed : e.prob >= m_params.qualityImmuneProbThreshold})
      /\ qfstats.immuneEngine =
           Cardinality({e \in processed :
                          /\ e.prob < m_params.qualityImmuneProbThreshold
                          /\ m_params.qualityImmuneMultipleEngines /\ e.se > 1})
      /\ \A L \in 1..5 :
           qfstats["Q" \o ToString(L)] <= Cardinality({e \in examined : QFTriggers(e, L)})
      /\ \A c \in QCounters : qfstats[c] <= nexamined

\* a run that removes at every level and keeps two immune entries, one of them
\* immune on both accounts
C22_Witness ==
  /\ Done /\ m_params.qualityLevelRemove = 5 /\ m_params.qualityLevelMark = 5
  /\ \E e \in QFProcessed : e.prob >= m_params.qualityImmuneProbThreshold /\ e.se > 1
  /\ \E e \in QFProcessed : e.prob < m_params.qualityImmuneProbThreshold /\ e.se > 1
  /\ qfstats.immuneProb = 1 /\ qfstats.immuneEngine = 1
  /\ Len(m_lib.entries) = 2
  /\ \A c \in QCounters : qfstats[c] = 0

\* C23, as claimed: every call of applyQualityFilter has run removeInquoratePeaks
\* on the entry's peak list, asking for at least one replicate, when it
\* returns, whether it returns true or false.
C23_PeakQuorumOnEveryCall ==
  \A n \in 1..Len(qfcalls) : qfcalls[n].peakSupport >= 1

---------------------------------------------------------------------------
(* doSimilarityClustering: the order of the seeds *)

\* the position of a file offset in the order doSimilarityClustering follows
Rank(o) == CHOOSE n \in 1..Len(SortedOffsets) : SortedOffsets[n] = o

\* the offsets the first loop has gone through
Visited ==
  IF pc = "cluster" THEN {SortedOffsets[n] : n \in 1..cursor}
  ELSE IF pc \in {"merge", "done"} /\ m_mzIndices = <<TRUE>> THEN AllOffsets
  ELSE {}

\* the offsets that started a cluster: the ones mapped to -1, and of each
\* multi-member cluster the member the loop came to first
Seeds ==
  {o \in Visited :
     \/ clusteredEntries[o] = -1
     \/ \A p \in multiclusters[clusteredEntries[o] + 1] : Rank(o) <= Rank(p)}

PrecursorMzOf(o) == (CHOOSE x \in A : x.offset = o).mz

\* C24, as claimed: of two entries that both seed a cluster, the one with the
\* smaller precursor m/z is processed first.
C24_SeedsByAscendingMz ==
  (m_params.buildAction = "SIMILARITY_CLUSTERING" /\ pc \in {"cluster", "merge", "done"})
  => \A s, t \in Seeds : PrecursorMzOf(s) < PrecursorMzOf(t) => Rank(s) < Rank(t)

---------------------------------------------------------------------------
(* doSubtractHomologs: the log *)

\* the entries of input 1 the loop of doSubtractHomologs has decided on
SHDecided ==
  IF m_params.combineAction = "SUBTRACT_HOMOLOGS" /\ m_params.buildAction = ""
       /\ pc \in {"sh", "done"} /\ Len(m_mzIndices) >= 1 /\ m_mzIndices[1]
    THEN {MzEntries(1)[n] : n \in 1..cursor}
    ELSE {}

\* the log records about the decision on an entry
SHRecords(e) ==
  {n \in 1..Len(g_log) :
     /\ g_log[n].level = "log" /\ g_log[n].tag = "CREATE"
     /\ Len(g_log[n].text) >= 2 /\ g_log[n].text[2] = e.ion}

\* C25, as claimed: for every entry of input 1 that doSubtractHomologs has
\* decided on, accepted or rejected, the log holds exactly one record of the
\* decision, and the record of a rejection gives the matched peptide, its m/z
\* and the identity.
C25_EveryDecisionLogged ==
  \A e \in SHDecided :
    /\ Cardinality(SHRecords(e)) = 1
    /\ \A n \in SHRecords(e) :
         g_log[n].text[1] = "removed" =>
           \E i \in 2..NumFiles : \E x \in m_impFileNames[i].lib :
             /\ Opened(i)
             /\ g_log[n].text[5] = x.ion
             /\ g_log[n].text[6] = IonTable[x.ion].mz
             /\ g_log[n].text[4] \in {0, Identity(Stripped(e), IonTable[x.ion].seq)}

---------------------------------------------------------------------------
(* isImpure *)

\* isImpure returned true for the entry: level 1, marking, has marked it
ReturnedImpure(e) == QFLogged("Mark", 1, e)

\* C26, as claimed: for an entry with a peptide, isImpure returns false if the
\* charge is 1; otherwise, for a singleton with penalizeSingletons set, it
\* returns true if the unassigned fraction of the top 20 peaks is above 0.4 or
\* the unassigned peaks among them are not fewer than the assigned ones minus
\* 2, as integers, and false if neither holds; and without the penalty it
\* returns true exactly when the fraction is not below 0.4.
C26_ImpureByFractionAndCount ==
  (m_params.qualityLevelMark = 1 /\ m_params.qualityLevelRemove = 0) =>
    \A e \in QFExamined :
      getPeptidePtr(e) =>
        IF getCharge(e) = 1 THEN ~ReturnedImpure(e)
        ELSE IF m_params.qualityPenalizeSingletons /\ e.nreps = 1
          THEN /\ (\/ e.fracUnassignedTop20 > 40
                   \/ e.numUnassignedTop20 >= e.numAssignedTop20 - 2) => ReturnedImpure(e)
               /\ (/\ e.fracUnassignedTop20 < 40
                   /\ e.numUnassignedTop20 < e.numAssignedTop20 - 2) => ~ReturnedImpure(e)
          ELSE ReturnedImpure(e) <=> e.fracUnassignedTop20 >= 40

---------------------------------------------------------------------------
(* The entries obtained from the indices and their deletion *)

\* C27, as claimed: no entry that doSubtractHomologs, doQualityFilter or
\* doGenerateDecoy got from an index is deleted twice, and when the operation
\* has returned every one of them has been deleted once.
C27_ObtainedDeletedOnce ==
  /\ \A n \in 1..Len(heap) : heap[n].deletes <= 1
  /\ Done => \A n \in 1..Len(heap) : heap[n].deletes = 1


---------------------------------------------------------------------------
(* isBadConflictingID *)

\* isBadConflictingID returned true for the entry: level 2, marking, has
\* marked it
FlaggedConflicting(e) == QFLogged("Mark", 2, e)

\* two entries of the reference library, within 4.5 Th of each other, whose
\* spectra are similar (dot >= 0.70, or >= 0.65 under the penalty when one of
\* the two is a singleton) and whose peptides are not homologous (identity
\* below 0.6)
ConflictingPair(x, y) ==
  /\ x.ion # y.ion
  /\ getPeptidePtr(x) /\ getPeptidePtr(y)
  /\ getPrecursorMz(x) - getPrecursorMz(y) <= MzWindow
  /\ getPrecursorMz(y) - getPrecursorMz(x) <= MzWindow
  /\ \/ compareQF(x, y) >= 70
     \/ /\ m_params.qualityPenalizeSingletons
        /\ x.nreps = 1 \/ y.nreps = 1
        /\ compareQF(x, y) >= 65
  /\ Identity(Stripped(x), Stripped(y)) < 60

\* x is the worse of the two: fewer replicates, or as many and a strictly lower
\* probability
WorseOf(x, y) == x.nreps < y.nreps \/ (x.nreps = y.nreps /\ x.prob < y.prob)

---------------------------------------------------------------------------
(* The counters of QFStats *)

\* the concerns (levels) a counter of QFStats counts the entries of
QConcerns ==
  [Q1 |-> {1},
   Q2 |-> {2},
   Q3 |-> {3},
   Q4 |-> {4},
   Q5 |-> {5},
   Q1Q2 |-> {1, 2},
   Q1Q3 |-> {1, 3},
   Q1Q4 |-> {1, 4},
   Q1Q5 |-> {1, 5},
   Q2Q3 |-> {2, 3},
   Q2Q4 |-> {2, 4},
   Q2Q5 |-> {2, 5},
   Q3Q4 |-> {3, 4},
   Q3Q5 |-> {3, 5},
   Q4Q5 |-> {4, 5},
   Q1Q2Q3 |-> {1, 2, 3},
   Q1Q2Q4 |-> {1, 2, 4},
   Q1Q2Q5 |-> {1, 2, 5},
   Q1Q3Q4 |-> {1, 3, 4},
   Q1Q3Q5 |-> {1, 3, 5},
   Q1Q4Q5 |-> {1, 4, 5},
   Q2Q3Q4 |-> {2, 3, 4},
   Q2Q3Q5 |-> {2, 3, 5},
   Q2Q4Q5 |-> {2, 4, 5},
   Q3Q4Q5 |-> {3, 4, 5},
   Q1Q2Q3Q4 |-> {1, 2, 3, 4},
   Q1Q2Q3Q5 |-> {1, 2, 3, 5},
   Q1Q2Q4Q5 |-> {1, 2, 4, 5},
   Q1Q3Q4Q5 |-> {1, 3, 4, 5},
   Q2Q3Q4Q5 |-> {2, 3, 4, 5},
   Q1Q2Q3Q4Q5 |-> {1, 2, 3, 4, 5}]

\* C29, as claimed: whatever qualityLevelMark and qualityLevelRemove, a counter
\* of several concerns never exceeds a counter of some of these concerns, and
\* no counter exceeds the number of entries processed.
C29_IntersectionsBelowParts ==
  /\ \A c, d \in QCounters :
       (QConcerns[d] \subseteq QConcerns[c]) => qfstats[c] <= qfstats[d]
  /\ \A c \in QFCounters : qfstats[c] <= Cardinality(QFProcessed)

---------------------------------------------------------------------------
(* The status applyQualityFilter leaves *)

\* the levels whose condition holds for the entry and that mark
QFMarkedLevels(e) ==
  {L \in 1..5 : QFTriggers(e, L) /\ m_params.qualityLevelMark >= L}

\* the calls of applyQualityFilter, so far, that returned true
QFKept == {n \in 1..Len(qfcalls) : qfcalls[n].ret}

\* C30: for every qualityLevelMark and qualityLevelRemove, the n-th call of
\* applyQualityFilter that returns true has the n-th entry of the output
\* library written; if the entry is not immune its status there is the label
\* of the lowest level that is triggered and marks, Normal if there is none,
\* and never the status it was read with.
C30_StatusOfMostSevereMark ==
  LET kept     == QFKept
      examined == QFExamined
  IN  /\ Len(m_lib.entries) = Cardinality(kept)
      /\ \A n \in kept :
           LET k == Cardinality({j \in kept : j <= n})
               w == m_lib.entries[k]
           IN  /\ w.ion = qfcalls[n].ion
               /\ \A e \in examined :
                    e.ion = w.ion =>
                      LET marked == QFMarkedLevels(e)
                      IN  /\ w.status # e.status
                          /\ w.status = IF marked = {} THEN "Normal"
                                        ELSE QFLabel(CHOOSE L \in marked :
                                                       \A K \in marked : L <= K)

\* two entries kept: one marked at levels 5, 3 and 2 that leaves as
\* Conflicting_ID, one that no level marks and that leaves as Normal
C30_Witness ==
  /\ Done /\ m_params.qualityLevelMark = 5 /\ m_params.qualityLevelRemove = 0
  /\ Cardinality(QFKept) = 2
  /\ \E e \in QFExamined :
       /\ QFMarkedLevels(e) = {2, 3, 5}
       /\ \E k \in 1..Len(m_lib.entries) :
            m_lib.entries[k].ion = e.ion /\ m_lib.entries[k].status = "Conflicting_ID"
  /\ \E e \in QFExamined :
       /\ QFMarkedLevels(e) = {}
       /\ e.status = "Unset"
       /\ \E k \in 1..Len(m_lib.entries) :
            m_lib.entries[k].ion = e.ion /\ m_lib.entries[k].status = "Normal"
=============================================================================
